---- MODULE Spec2Model ----
(***************************************************************************)
(* State-machine model of the Lifestyle Planner backend (Express routers   *)
(* over a MySQL store, JWT bearer authentication, an AI proxy).            *)
(*                                                                         *)
(* A request occupies a slot; its handler is cut at the points where it    *)
(* touches something outside the handler (a store statement, the clock     *)
(* read of jwt.verify, the upstream AI service), so each action is the     *)
(* code from one such point to the next.                                   *)
(***************************************************************************)
EXTENDS Integers, Sequences, FiniteSets, TLC

\* ---------------------------------------------------------------- bounds
MaxTime == 1          \* the clock runs 0..MaxTime
MaxRequests == 2      \* requests received in one behaviour
MaxUsers == 3         \* user ids the store hands out
MaxPlans == 3         \* plan ids the store hands out
MaxSections == 6      \* section ids the store hands out
MaxSummaries == 3     \* summary ids the store hands out
ExpiresIn == 1        \* JWT_EXPIRES_IN, in clock ticks

Slots == {"s1", "s2"}  \* requests in flight at the same time

Salts == {"s"}

\* ------------------------------------------------------------ JS values
Undef == [k |-> "undefined"]
JsNull == [k |-> "null"]
Str(s) == [k |-> "str", v |-> s]
Bool(b) == [k |-> "bool", v |-> b]
\* an object literal: its own enumerable properties, in insertion order
Obj(pairs) == [k |-> "obj", v |-> pairs]

\* JS truthiness of a request-body value (used by !email, !password, !comment)
Truthy(x) ==
  CASE x.k = "undefined" -> FALSE
    [] x.k = "null" -> FALSE
    [] x.k = "str" -> x.v # ""
    [] x.k = "bool" -> x.v
    [] OTHER -> TRUE

\* --------------------------------------------------------------- tokens
\* A JWT: the signed payload {userId, email, exp} and whether the signature
\* verifies under JWT_SECRET.
Token(uid, email, exp, sig) == [userId |-> uid, email |-> email, exp |-> exp, sig |-> sig]

\* a word of the Authorization header (what split(' ') yields)
W(s) == [k |-> "w", v |-> s]
J(t) == [k |-> "jwt", v |-> t]

NoHeader == [present |-> FALSE, parts |-> <<>>]
Header(parts) == [present |-> TRUE, parts |-> parts]

NoUser == [userId |-> 0, email |-> ""]

\* ----------------------------------------------------------- responses
NoResp == [status |-> 0, body |-> [k |-> "none"]]
Resp(status, body) == [status |-> status, body |-> body]
Err(msg) == [k |-> "error", error |-> msg]
ErrDetails(msg, d) == [k |-> "error", error |-> msg, details |-> d]
Empty == [k |-> "empty"]

VARIABLES
  now,           \* the clock jwt.sign and jwt.verify read
  users,         \* table users: rows {id, email, password_hash}
  nextUserId,    \* AUTO_INCREMENT of users
  plans,         \* table plans: rows {id, user_id, title, parameters, status}
  nextPlanId,    \* AUTO_INCREMENT of plans
  sections,      \* table plan_sections: rows {id, plan_id, section_type, content, status}
  nextSectionId, \* AUTO_INCREMENT of plan_sections
  reminders,     \* table plan_reminders: rows {id, plan_id, rule, is_active}
  summaries,     \* table plan_summaries: rows {id, plan_id, title, executive_summary}
  nextSummaryId, \* AUTO_INCREMENT of plan_summaries
  issued,        \* logins answered with a token: the token, the email, the clock value
  req,           \* slot -> the request in it (inputs, position, locals, response)
  received,      \* requests received so far
  fresh,         \* history: plans as createPlan was asked to create them, not written since
  deleted,       \* history: ids of the plans whose deletion was answered 204
  owner,         \* history: every plan id the store has held, with its user_id
  held           \* connections taken from the pool by getConnection and not released

store == <<users, nextUserId, plans, nextPlanId, sections, nextSectionId,
           reminders, summaries, nextSummaryId>>
vars == <<now, users, nextUserId, plans, nextPlanId, sections, nextSectionId,
          reminders, summaries, nextSummaryId, issued, req, received, fresh, deleted, owner, held>>

\* ------------------------------------------------------------- requests
NoBody ==
  [email |-> Undef, password |-> Undef, title |-> Undef, parameters |-> Undef,
   comment |-> Undef, rule |-> Undef, is_active |-> Undef,
   payload |-> Undef]  \* req.body as a whole, for the routes that forward it

NoLoc == [k |-> "none"]

IdleReq ==
  [route |-> "none", pc |-> "idle", header |-> NoHeader, planId |-> 0, subId |-> 0,
   body |-> NoBody, user |-> NoUser, loc |-> NoLoc, resp |-> NoResp,
   authAt |-> -1,    \* clock value jwt.verify saw (-1: the middleware did not run)
   authed |-> FALSE, \* authenticateToken called next()
   dbOps |-> 0,      \* store statements issued by this request
   aiCalls |-> 0,    \* upstream AI calls made for this request
   aiAt |-> -1,      \* clock value at which the request called the AI proxy (-1: it did not)
   taken |-> FALSE,  \* register: the email was registered when the request arrived
   saw |-> {},       \* getPlan: owners of the plan with that id at the ownership check
   stmts |-> {},     \* the statements issued: table, operation, columns of the WHERE clause
   absent |-> FALSE, \* the request came without a body and req.body is undefined
   raised |-> {},    \* the failures raised while the handler ran
   escaped |-> FALSE, \* a failure left the handler: the framework answered, not the handler
   sent |-> 0]       \* responses written for the request

Protected(route) == route \notin {"register", "login", "health"}

\* res.status(s).json(b): the request is answered and the handler returns
Respond(rq, s, b) == [rq EXCEPT !.pc = "done", !.resp = Resp(s, b), !.sent = @ + 1]

\* a failure caught by the handler's catch block, which answers 500
Fail(rq, kind, b) ==
  [rq EXCEPT !.pc = "done", !.resp = Resp(500, b), !.raised = @ \cup {kind}, !.sent = @ + 1]

\* pool.query(...) issued by a request: counted and logged
Stmt(rq, table, op, filter) ==
  [rq EXCEPT !.dbOps = @ + 1,
             !.stmts = @ \cup {[table |-> table, op |-> op, filter |-> filter]}]

\* ------------------------------------------------------- authenticateToken
HeaderFalsy(h) == ~h.present \/ h.parts = <<W("")>>

\* jwt.verify with ignoreExpiration
VerifyErrNoExpiry(tok, t) == tok.k # "jwt" \/ tok.v.sig # "good"

\* jwt.verify(token, JWT_SECRET, cb): err is set at clock value t
VerifyErr(tok, t) == tok.k # "jwt" \/ tok.v.sig # "good" \/ t >= tok.v.exp

\* the middleware without the test of parts[0]
AuthOutcomeAnyScheme(h, t) ==
  IF HeaderFalsy(h) THEN [ok |-> FALSE, status |-> 401, body |-> Err("Token requerido"), user |-> NoUser]
  ELSE IF Len(h.parts) # 2
    THEN [ok |-> FALSE, status |-> 401, body |-> Err("Token malformado"), user |-> NoUser]
  ELSE IF VerifyErr(h.parts[2], t)
    THEN [ok |-> FALSE, status |-> 403, body |-> Err("Token inválido"), user |-> NoUser]
  ELSE [ok |-> TRUE, status |-> 0, body |-> Empty,
        user |-> [userId |-> h.parts[2].v.userId, email |-> h.parts[2].v.email]]

\* outcome of the middleware for a header at clock value t
AuthOutcome(h, t) ==
  IF HeaderFalsy(h) THEN [ok |-> FALSE, status |-> 401, body |-> Err("Token requerido"), user |-> NoUser]
  ELSE IF Len(h.parts) # 2 \/ h.parts[1] # W("Bearer")
    THEN [ok |-> FALSE, status |-> 401, body |-> Err("Token malformado"), user |-> NoUser]
  ELSE IF VerifyErr(h.parts[2], t)
    THEN [ok |-> FALSE, status |-> 403, body |-> Err("Token inválido"), user |-> NoUser]
  ELSE [ok |-> TRUE, status |-> 0, body |-> Empty,
        user |-> [userId |-> h.parts[2].v.userId, email |-> h.parts[2].v.email]]

Authenticate(r) ==
  /\ req[r].pc = "auth"
  /\ LET o == AuthOutcome(req[r].header, now) IN
       req' = [req EXCEPT ![r] =
                 IF o.ok
                   THEN [@ EXCEPT !.pc = "handler", !.user = o.user, !.authAt = now, !.authed = TRUE]
                   ELSE [Respond(@, o.status, o.body) EXCEPT !.authAt = now]]
  /\ UNCHANGED <<now, store, issued, received, fresh, deleted, owner, held>>

\* ------------------------------------------------------------------ clock
Tick ==
  /\ now < MaxTime
  /\ now' = now + 1
  /\ UNCHANGED <<store, issued, req, received, fresh, deleted, owner, held>>

\* ------------------------------------------------------------------- JSON
Punct(c) == [k |-> "p", c |-> c]
Member(key, val) == [k |-> "m", key |-> key, val |-> val]

\* JSON.stringify of a request-body value: the text, token by token
JSONStringify(x) ==
  CASE x.k = "obj" ->
         <<Punct("{")>> \o [i \in 1..Len(x.v) |-> Member(x.v[i][1], x.v[i][2])] \o <<Punct("}")>>
    [] x.k = "null" -> <<Punct("null")>>
    [] x.k = "str" -> <<Punct(x.v)>>
    [] OTHER -> <<>>

\* keys in the order a JSON column keeps them (by length, then by bytes)
KeyOrder == <<"Bienestar", "Nutrición">>

\* what a JSON column holds after the text is written to it: the members
\* sorted by key
JsonColumn(text) ==
  IF Len(text) >= 2 /\ text[1] = Punct("{")
    THEN LET keys == {text[i].key : i \in 2..(Len(text) - 1)}
             Has(key) == key \in keys
             ordered == SelectSeq(KeyOrder, Has)
             ValueOf(key) == (CHOOSE i \in 2..(Len(text) - 1) : text[i].key = key)
         IN [k |-> "doc", v |-> [i \in 1..Len(ordered) |-> <<ordered[i], text[ValueOf(ordered[i])].val>>]]
    ELSE [k |-> "docnull", v |-> <<>>]

\* what the driver hands back for a JSON column: the parsed value
ReadJson(doc) == IF doc.k = "doc" THEN Obj(doc.v) ELSE JsNull

\* ---------------------------------------------------------------- bcrypt
\* bcrypt.hash(password, SALT_ROUNDS): a salted one-way hash
Hash(password, salt) == [k |-> "bcrypt", salt |-> salt, of |-> password]
\* bcrypt.compare(password, hash)
Compare(password, hash) == hash.k = "bcrypt" /\ hash.of = password

\* ------------------------------------------------------ store statements
\* a lookup that never finds the email
UsersByEmailNone(email) == {}

\* SELECT ... FROM users WHERE email = ?
UsersByEmail(email) == {u \in users : u.email = email}

\* the ownership check without its user_id condition
OwnedPlanAnyUser(planId, userId) == {p \in plans : p.id = planId}

\* SELECT ... FROM plans WHERE id = ? AND user_id = ?
OwnedPlan(planId, userId) == {p \in plans : p.id = planId /\ p.user_id = userId}

\* SELECT ... FROM plans WHERE user_id = ?
PlansOf(userId) == {p \in plans : p.user_id = userId}

\* SELECT ... FROM plans WHERE id = ?
PlanById(planId) == {p \in plans : p.id = planId}

\* SELECT ... FROM plan_sections WHERE plan_id = ?
SectionsOf(planId) == {s \in sections : s.plan_id = planId}

\* the columns the handlers select
PlanView(p) == [id |-> p.id, title |-> p.title, parameters |-> ReadJson(p.parameters), status |-> p.status]
SectionView(s) == [id |-> s.id, section_type |-> s.section_type, content |-> s.content, status |-> s.status]

\* rows[0] of a result set (the store returns rows in primary-key order)
First(rows) == CHOOSE x \in rows : \A y \in rows : x.id <= y.id

\* the schema's column defaults and constraints
PlanStatusDefault == "draft"
\* FOREIGN KEY (plan_id) REFERENCES plans(id) ON DELETE CASCADE
Cascade(rows, gone) == {x \in rows : x.plan_id \notin gone}
\* an INSERT whose plan_id names no plan is rejected
NoSuchPlan(planId) == \A p \in plans : p.id # planId
\* users.email UNIQUE
DuplicateEmail(email) == \E u \in users : u.email = email

\* ------------------------------------------------------- POST /auth/register
RegisterCheck(r) ==
  /\ req[r].pc = "handler" /\ req[r].route = "register" /\ ~req[r].absent
  /\ LET b == req[r].body IN
       req' = [req EXCEPT ![r] =
         IF ~Truthy(b.email) \/ ~Truthy(b.password)
           THEN Respond(@, 400, Err("Email y contraseña son obligatorios"))
         ELSE IF UsersByEmail(b.email.v) # {}
           THEN Respond(Stmt(@, "users", "select", {"email"}), 409, Err("El email ya está registrado"))
         ELSE [Stmt(@, "users", "select", {"email"}) EXCEPT !.pc = "insert"]]
  /\ UNCHANGED <<now, store, issued, received, fresh, deleted, owner, held>>

\* a handler that answers 201 whatever became of the INSERT
RegisterInsertSwallowing(r) ==
  /\ req[r].pc = "insert" /\ req[r].route = "register"
  /\ nextUserId <= MaxUsers \/ DuplicateEmail(req[r].body.email.v)
  /\ \E salt \in Salts :
       LET b == req[r].body
           rq == Stmt(req[r], "users", "insert", {})
       IN /\ IF DuplicateEmail(b.email.v)
               THEN UNCHANGED <<users, nextUserId>>
               ELSE /\ users' = users \cup {[id |-> nextUserId, email |-> b.email.v,
                                             password_hash |-> Hash(b.password.v, salt)]}
                    /\ nextUserId' = nextUserId + 1
          /\ req' = [req EXCEPT ![r] =
                       Respond(rq, 201, [k |-> "message", message |-> "Usuario registrado correctamente"])]
  /\ UNCHANGED <<now, plans, nextPlanId, sections, nextSectionId, reminders, summaries,
                 nextSummaryId, issued, received, fresh, deleted, owner, held>>

RegisterInsert(r) ==
  /\ req[r].pc = "insert" /\ req[r].route = "register"
  /\ nextUserId <= MaxUsers \/ DuplicateEmail(req[r].body.email.v)
  /\ \E salt \in Salts :
       LET b == req[r].body
           rq == Stmt(req[r], "users", "insert", {})
       IN IF DuplicateEmail(b.email.v)
            THEN /\ req' = [req EXCEPT ![r] = Fail(rq, "store", Err("Error interno del servidor"))]
                 /\ UNCHANGED <<users, nextUserId, owner, held>>
            ELSE /\ users' = users \cup {[id |-> nextUserId, email |-> b.email.v,
                                          password_hash |-> Hash(b.password.v, salt)]}
                 /\ nextUserId' = nextUserId + 1
                 /\ req' = [req EXCEPT ![r] =
                              Respond(rq, 201, [k |-> "message", message |-> "Usuario registrado correctamente"])]
  /\ UNCHANGED <<now, plans, nextPlanId, sections, nextSectionId, reminders, summaries,
                 nextSummaryId, issued, received, fresh, deleted, owner, held>>

\* ---------------------------------------------------------- POST /auth/login
\* a token that names nobody
SignAnonymous(userId, email, t) == Token(0, "", t + ExpiresIn, "good")

\* jwt.sign({userId, email}, JWT_SECRET, {expiresIn}) at clock value t
Sign(userId, email, t) == Token(userId, email, t + ExpiresIn, "good")

\* a login that tells an unknown email from a wrong password
LoginOutcomeTelling(b, t) ==
  IF ~Truthy(b.email) \/ ~Truthy(b.password)
    THEN [status |-> 400, body |-> Err("Email y contraseña son obligatorios"), why |-> "invalid"]
  ELSE IF UsersByEmail(b.email.v) = {}
    THEN [status |-> 404, body |-> Err("Usuario no encontrado"), why |-> "unknown"]
  ELSE IF ~Compare(b.password.v, First(UsersByEmail(b.email.v)).password_hash)
    THEN [status |-> 401, body |-> Err("Credenciales inválidas"), why |-> "mismatch"]
  ELSE [status |-> 200,
        body |-> [k |-> "token", token |-> Sign(First(UsersByEmail(b.email.v)).id, b.email.v, t)],
        why |-> "ok"]

LoginOutcome(b, t) ==
  IF ~Truthy(b.email) \/ ~Truthy(b.password)
    THEN [status |-> 400, body |-> Err("Email y contraseña son obligatorios"), why |-> "invalid"]
  ELSE IF UsersByEmail(b.email.v) = {}
    THEN [status |-> 401, body |-> Err("Credenciales inválidas"), why |-> "unknown"]
  ELSE IF ~Compare(b.password.v, First(UsersByEmail(b.email.v)).password_hash)
    THEN [status |-> 401, body |-> Err("Credenciales inválidas"), why |-> "mismatch"]
  ELSE [status |-> 200,
        body |-> [k |-> "token", token |-> Sign(First(UsersByEmail(b.email.v)).id, b.email.v, t)],
        why |-> "ok"]

Login(r) ==
  /\ req[r].pc = "handler" /\ req[r].route = "login" /\ ~req[r].absent
  /\ LET o == LoginOutcome(req[r].body, now)
         rq == IF o.why = "invalid" THEN req[r] ELSE Stmt(req[r], "users", "select", {"email"})
         known == Truthy(req[r].body.email) /\ UsersByEmail(req[r].body.email.v) # {}
     IN /\ req' = [req EXCEPT ![r] =
               [Respond(rq, o.status, o.body) EXCEPT !.saw = IF known THEN {"known"} ELSE {}]]
        /\ issued' = IF o.why = "ok"
                        THEN issued \cup {[token |-> o.body.token, email |-> req[r].body.email.v, at |-> now]}
                        ELSE issued
  /\ UNCHANGED <<now, store, received, fresh, deleted, owner, held>>

\* ------------------------------------------------------------- GET /plans
ListPlans(r) ==
  /\ req[r].pc = "handler" /\ req[r].route = "listPlans"
  /\ req' = [req EXCEPT ![r] =
       Respond(Stmt(@, "plans", "select", {"user_id"}), 200,
               [k |-> "plans", rows |-> {PlanView(p) : p \in PlansOf(req[r].user.userId)}])]
  /\ UNCHANGED <<now, store, issued, received, fresh, deleted, owner, held>>

\* ------------------------------------------------------------ POST /plans
\* an INSERT that leaves the parameters column to an empty document
NewPlanRowNoParameters(id, userId, title, parameters) ==
  [id |-> id, user_id |-> userId, title |-> title,
   parameters |-> JsonColumn(JSONStringify(Obj(<<>>))), status |-> PlanStatusDefault]

\* the row INSERT INTO plans (user_id, title, parameters) creates
NewPlanRow(id, userId, title, parameters) ==
  [id |-> id, user_id |-> userId, title |-> title,
   parameters |-> JsonColumn(JSONStringify(parameters)), status |-> PlanStatusDefault]

CreatePlan(r) ==
  /\ req[r].pc = "handler" /\ req[r].route = "createPlan" /\ ~req[r].absent
  /\ nextPlanId <= MaxPlans
  /\ LET title == IF req[r].body.title = Undef THEN JsNull ELSE req[r].body.title
         parameters == IF req[r].body.parameters = Undef THEN Obj(<<>>) ELSE req[r].body.parameters
     IN /\ plans' = plans \cup {NewPlanRow(nextPlanId, req[r].user.userId, title, parameters)}
        /\ fresh' = fresh \cup {[id |-> nextPlanId, title |-> title, parameters |-> parameters]}
        /\ req' = [req EXCEPT ![r] =
             Respond(Stmt(@, "plans", "insert", {}), 201,
                     [k |-> "plan", id |-> nextPlanId, title |-> title,
                      parameters |-> parameters, status |-> "draft"])]
  /\ nextPlanId' = nextPlanId + 1
  /\ owner' = owner \cup {[id |-> nextPlanId, user_id |-> req[r].user.userId]}
  /\ UNCHANGED <<now, users, nextUserId, sections, nextSectionId, reminders, summaries,
                 nextSummaryId, issued, received, deleted, held>>

\* ------------------------------------------------------ GET /plans/:planId
GetPlanSelect(r) ==
  /\ req[r].pc = "handler" /\ req[r].route = "getPlan"
  /\ LET rows == OwnedPlan(req[r].planId, req[r].user.userId)
         rq == Stmt(req[r], "plans", "select", {"id", "user_id"})
     IN req' = [req EXCEPT ![r] =
          [(IF rows = {} THEN Respond(rq, 404, Err("Plan no encontrado"))
            ELSE [rq EXCEPT !.pc = "sections", !.loc = [k |-> "plan", row |-> PlanView(First(rows))]])
           EXCEPT !.saw = {p.user_id : p \in PlanById(req[r].planId)}]]
  /\ UNCHANGED <<now, store, issued, received, fresh, deleted, owner, held>>

GetPlanSections(r) ==
  /\ req[r].pc = "sections" /\ req[r].route = "getPlan"
  /\ req' = [req EXCEPT ![r] =
       Respond(Stmt(@, "plan_sections", "select", {"plan_id"}), 200,
               [k |-> "detail", plan |-> req[r].loc.row,
                sections |-> {SectionView(s) : s \in SectionsOf(req[r].planId)}])]
  /\ UNCHANGED <<now, store, issued, received, fresh, deleted, owner, held>>

\* ---------------------------------------------------- PATCH /plans/:planId
\* a SET clause that always carries the title
PlanPatchFieldsAlways(b) == {"title"}

\* the fields of the dynamic SET clause
PlanPatchFields(b) ==
  (IF b.title # Undef THEN {"title"} ELSE {}) \cup (IF b.parameters # Undef THEN {"parameters"} ELSE {})

UpdatePlanCheck(r) ==
  /\ req[r].pc = "handler" /\ req[r].route = "updatePlan" /\ ~req[r].absent
  /\ LET rq == Stmt(req[r], "plans", "select", {"id", "user_id"}) IN
       req' = [req EXCEPT ![r] =
         IF PlanPatchFields(req[r].body) = {}
           THEN Respond(@, 400, Err("Ningún campo para actualizar"))
         ELSE IF OwnedPlan(req[r].planId, req[r].user.userId) = {}
           THEN Respond(rq, 404, Err("Plan no encontrado"))
         ELSE [rq EXCEPT !.pc = "update"]]
  /\ UNCHANGED <<now, store, issued, received, fresh, deleted, owner, held>>

PatchedPlanWhole(p, b) == [p EXCEPT !.title = b.title, !.parameters = JsonColumn(JSONStringify(b.parameters))]

\* an UPDATE that also moves the plan out of 'draft'
PatchedPlanActivating(p, b) ==
  [p EXCEPT !.title = IF b.title # Undef THEN b.title ELSE @,
            !.parameters = IF b.parameters # Undef THEN JsonColumn(JSONStringify(b.parameters)) ELSE @,
            !.status = "active"]

\* UPDATE plans SET <fields> WHERE id = ? AND user_id = ?
PatchedPlan(p, b) ==
  [p EXCEPT !.title = IF b.title # Undef THEN b.title ELSE @,
            !.parameters = IF b.parameters # Undef THEN JsonColumn(JSONStringify(b.parameters)) ELSE @]

UpdatePlanExec(r) ==
  /\ req[r].pc = "update" /\ req[r].route = "updatePlan"
  /\ LET hit == OwnedPlan(req[r].planId, req[r].user.userId) IN
       /\ plans' = (plans \ hit) \cup {PatchedPlan(p, req[r].body) : p \in hit}
       /\ fresh' = {f \in fresh : f.id \notin {p.id : p \in hit}}
  /\ req' = [req EXCEPT ![r] = [Stmt(@, "plans", "update", {"id", "user_id"}) EXCEPT !.pc = "read"]]
  /\ UNCHANGED <<now, users, nextUserId, nextPlanId, sections, nextSectionId, reminders,
                 summaries, nextSummaryId, issued, received, deleted, owner, held>>

UpdatePlanRead(r) ==
  /\ req[r].pc = "read" /\ req[r].route = "updatePlan"
  /\ LET rows == PlanById(req[r].planId) IN
       req' = [req EXCEPT ![r] =
         Respond(Stmt(@, "plans", "select", {"id"}), 200,
                 IF rows = {} THEN Empty ELSE [k |-> "plan", row |-> PlanView(First(rows))])]
  /\ UNCHANGED <<now, store, issued, received, fresh, deleted, owner, held>>

\* --------------------------------------------------- DELETE /plans/:planId
DeletePlanCheck(r) ==
  /\ req[r].pc = "handler" /\ req[r].route = "deletePlan"
  /\ LET rq == Stmt(req[r], "plans", "select", {"id", "user_id"}) IN
       req' = [req EXCEPT ![r] =
         IF OwnedPlan(req[r].planId, req[r].user.userId) = {}
           THEN Respond(rq, 404, Err("Plan no encontrado"))
           ELSE [rq EXCEPT !.pc = "delete"]]
  /\ UNCHANGED <<now, store, issued, received, fresh, deleted, owner, held>>

\* a DELETE that matches no row
DeletedPlansNone(planId, userId) == {}

\* DELETE FROM plans WHERE id = ? AND user_id = ?
DeletedPlans(planId, userId) == OwnedPlan(planId, userId)

DeletePlanExec(r) ==
  /\ req[r].pc = "delete" /\ req[r].route = "deletePlan"
  /\ LET gone == {p.id : p \in DeletedPlans(req[r].planId, req[r].user.userId)} IN
       /\ plans' = {p \in plans : p.id \notin gone}
       /\ sections' = Cascade(sections, gone)
       /\ reminders' = Cascade(reminders, gone)
       /\ summaries' = Cascade(summaries, gone)
       /\ fresh' = {f \in fresh : f.id \notin gone}
  /\ req' = [req EXCEPT ![r] = Respond(Stmt(@, "plans", "delete", {"id", "user_id"}), 204, Empty)]
  /\ deleted' = deleted \cup {req[r].planId}
  /\ UNCHANGED <<now, users, nextUserId, nextPlanId, nextSectionId, nextSummaryId, issued, received, owner, held>>

\* ------------------------------------------------------------ model text
\* A reply of the language model is a text, kept as runs of characters: n
\* characters of prose or of whitespace, a bracket, a comma, or the text of
\* one JSON object (which starts with '{' and ends with '}').
Txt(n) == [k |-> "txt", n |-> n]
Ws(n) == [k |-> "ws", n |-> n]
LBr == [k |-> "[", n |-> 1]
RBr == [k |-> "]", n |-> 1]
Comma == [k |-> ",", n |-> 1]
JsonObj(n, fields) == [k |-> "{}", n |-> n, v |-> fields]
SecObj(type, content) == JsonObj(30, [section_type |-> type, content |-> content])
SumObj(title, summary) == JsonObj(30, [title |-> title, executive_summary |-> summary])

RECURSIVE TextLen(_)
TextLen(text) == IF text = <<>> THEN 0 ELSE Head(text).n + TextLen(Tail(text))

\* a run cut after its first n characters
CutRun(run, n) == IF run.k \in {"txt", "ws"} THEN [run EXCEPT !.n = n] ELSE [k |-> "part", n |-> n, of |-> run]

\* the whole text, whatever n
SliceAll(text, n) == text

\* raw.slice(0, n)
RECURSIVE Slice(_, _)
Slice(text, n) ==
  IF text = <<>> \/ n <= 0 THEN <<>>
  ELSE IF Head(text).n <= n THEN <<Head(text)>> \o Slice(Tail(text), n - Head(text).n)
  ELSE <<CutRun(Head(text), n)>>

\* the text as it came
TrimNone(text) == text

\* raw.trim()
RECURSIVE TrimLeft(_)
TrimLeft(text) == IF text # <<>> /\ Head(text).k = "ws" THEN TrimLeft(Tail(text)) ELSE text
RECURSIVE TrimRight(_)
TrimRight(text) ==
  IF text # <<>> /\ text[Len(text)].k = "ws" THEN TrimRight(SubSeq(text, 1, Len(text) - 1)) ELSE text
Trim(text) == TrimRight(TrimLeft(text))

\* raw.match(/<open>.*<close>/s): greedy, from the first opening character
\* to the last closing one; <<>> when there is no match
Opens(text, open) == {i \in DOMAIN text : text[i].k \in open}
Closes(text, close) == {i \in DOMAIN text : text[i].k \in close}
Min(S) == CHOOSE x \in S : \A y \in S : x <= y
Max(S) == CHOOSE x \in S : \A y \in S : x >= y
Match(text, open, close) ==
  IF Opens(text, open) # {} /\ Closes(text, close) # {}
       /\ Min(Opens(text, open)) <= Max(Closes(text, close))
       /\ (Min(Opens(text, open)) = Max(Closes(text, close)) => text[Min(Opens(text, open))].k = "{}")
    THEN SubSeq(text, Min(Opens(text, open)), Max(Closes(text, close)))
    ELSE <<>>
MatchArray(text) == Match(text, {"["}, {"]"})
MatchObject(text) == Match(text, {"{", "{}"}, {"}", "{}"})

NotWs(run) == run.k # "ws"

\* JSON.parse of a matched '[...]' text whose elements are JSON objects:
\* the elements, or a SyntaxError
ParseArray(m) ==
  LET inner == SelectSeq(SubSeq(m, 2, Len(m) - 1), NotWs)
      wellFormed ==
        \/ inner = <<>>
        \/ /\ Len(inner) % 2 = 1
           /\ \A i \in DOMAIN inner : inner[i].k = (IF i % 2 = 1 THEN "{}" ELSE ",")
  IN IF wellFormed
       THEN [ok |-> TRUE, v |-> [i \in 1..((Len(inner) + 1) \div 2) |-> inner[2 * i - 1].v]]
       ELSE [ok |-> FALSE, v |-> <<>>]

\* JSON.parse of a matched '{...}' text
ParseObject(m) ==
  IF Len(m) = 1 /\ m[1].k = "{}" THEN [ok |-> TRUE, v |-> m[1].v] ELSE [ok |-> FALSE, v |-> [none |-> TRUE]]

\* -------------------------------------------------------------- AI gateway
\* what the upstream chat-completions service can answer
UpFail == [k |-> "fail", message |-> "ECONNREFUSED"]
UpNoChoices == [k |-> "data", choices |-> FALSE, content |-> <<>>]
UpContent(raw) == [k |-> "data", choices |-> TRUE, content |-> raw]

\* router.post('/generate' | '/adjust'): the handler after authenticateToken
\* a handler that keeps the reason of the failure to itself
ProxyHandlerSilent(route, up) ==
  IF up.k = "fail"
    THEN Resp(500, Err(IF route = "aiGenerate" THEN "Error al generar con IA"
                                               ELSE "Error al ajustar con IA"))
    ELSE Resp(200, up)

ProxyHandler(route, up) ==
  IF up.k = "fail"
    THEN Resp(500, ErrDetails(IF route = "aiGenerate" THEN "Error al generar con IA"
                                                      ELSE "Error al ajustar con IA", up.message))
    ELSE Resp(200, up)

AiProxy(r) ==
  /\ req[r].pc = "handler" /\ req[r].route \in {"aiGenerate", "aiAdjust"}
  /\ \E up \in {UpFail, UpNoChoices, UpContent(<<Txt(3)>>)} :
       req' = [req EXCEPT ![r] =
         [@ EXCEPT !.pc = "done", !.resp = ProxyHandler(req[r].route, up), !.aiCalls = @ + 1,
                   !.sent = @ + 1,
                   !.loc = [k |-> "up", up |-> up, sent |-> JSONStringify(req[r].body.payload)],
                   !.raised = IF up.k = "fail" THEN {"ai"} ELSE {}]]
  /\ UNCHANGED <<now, store, issued, received, fresh, deleted, owner, held>>

\* axios.post(`${API_BASE}/ai/...`, ..., {headers: {Authorization}}) from a
\* plans handler: the request passes authenticateToken again, at clock value
\* t, and then the proxy handler; axios rejects on a status outside 2xx
AxiosError(status) == [k |-> "axios", message |-> "Request failed with status code", status |-> status]
TypeError == [k |-> "TypeError", message |-> "Cannot read properties of undefined"]
SyntaxError == [k |-> "SyntaxError", message |-> "Unexpected token"]
StoreError == [k |-> "StoreError", message |-> "ER_NO_REFERENCED_ROW"]

AiRoundTrip(route, header, t, up) ==
  LET a == AuthOutcome(header, t)
      res == IF a.ok THEN ProxyHandler(route, up) ELSE Resp(a.status, a.body)
  IN IF res.status # 200
       THEN [ok |-> FALSE, err |-> AxiosError(res.status), called |-> a.ok, raw |-> <<>>, kind |-> "ai"]
     ELSE IF ~res.body.choices
       THEN [ok |-> FALSE, err |-> TypeError, called |-> TRUE, raw |-> <<>>, kind |-> "shape"]
     ELSE [ok |-> TRUE, err |-> Empty, called |-> TRUE, raw |-> res.body.content, kind |-> "none"]

SliceLimit == 200

\* ---------------------------------------------- POST /plans/:planId/sections
SectionStatusDefault == "generated"

SectionReplies ==
  {<<Txt(SliceLimit + 50)>>,
   <<Txt(2), RBr, Txt(1), LBr>>,
   <<LBr, Txt(3), RBr>>,
   <<LBr, RBr>>,
   <<Txt(2), LBr, SecObj("Profesional", "c1"), Comma, Ws(1), SecObj("Nutrición", "c2"), RBr, Txt(1)>>}

GenSelect(r) ==
  /\ req[r].pc = "handler" /\ req[r].route = "genSections"
  /\ LET rq == Stmt(req[r], "plans", "select", {"id", "user_id"}) IN
       req' = [req EXCEPT ![r] =
         IF OwnedPlan(req[r].planId, req[r].user.userId) = {}
           THEN Respond(rq, 404, Err("Plan no encontrado"))
           ELSE [rq EXCEPT !.pc = "ai"]]
  /\ UNCHANGED <<now, store, issued, received, fresh, deleted, owner, held>>

\* steps 3 and 4 of the handler: the reply, the match and the parse
GenAfterAI(rq, ai) ==
  LET q == [rq EXCEPT !.aiCalls = IF ai.called THEN @ + 1 ELSE @,
                      !.loc = [k |-> "ai", got |-> ai.ok, raw |-> ai.raw, pending |-> <<>>, left |-> {}, lost |-> {}]]
  IN IF ~ai.ok THEN Fail(q, ai.kind, ErrDetails("Error al generar secciones", ai.err))
     ELSE IF MatchArray(ai.raw) = <<>>
       THEN Respond(q, 500, ErrDetails("Respuesta IA no contiene JSON", Slice(ai.raw, SliceLimit)))
     ELSE IF ~ParseArray(MatchArray(ai.raw)).ok
       THEN Fail(q, "parse", ErrDetails("Error al generar secciones", SyntaxError))
     ELSE LET secs == ParseArray(MatchArray(ai.raw)).v IN
          [q EXCEPT !.pc = IF secs = <<>> THEN "read" ELSE "insert",
                    !.loc = [k |-> "ai", got |-> TRUE, raw |-> ai.raw, pending |-> secs, left |-> DOMAIN secs,
                            lost |-> {}]]

GenCallAI(r) ==
  /\ req[r].pc = "ai" /\ req[r].route = "genSections"
  /\ \E up \in {UpFail, UpNoChoices} \cup {UpContent(raw) : raw \in SectionReplies} :
       req' = [req EXCEPT ![r] =
                 [GenAfterAI(@, AiRoundTrip("aiGenerate", req[r].header, now, up)) EXCEPT !.aiAt = now]]
  /\ UNCHANGED <<now, store, issued, received, fresh, deleted, owner, held>>

NewSectionRowBlank(id, planId, sec) ==
  [id |-> id, plan_id |-> planId, section_type |-> sec.section_type, content |-> "",
   status |-> SectionStatusDefault]

\* INSERT INTO plan_sections (plan_id, section_type, content)
NewSectionRow(id, planId, sec) ==
  [id |-> id, plan_id |-> planId, section_type |-> sec.section_type, content |-> sec.content,
   status |-> SectionStatusDefault]

\* one of the inserts Promise.all waits for (they run in any order)
GenInsert(r) ==
  /\ req[r].pc = "insert" /\ req[r].route = "genSections"
  /\ nextSectionId <= MaxSections
  /\ \E i \in req[r].loc.left :
       LET rq == Stmt(req[r], "plan_sections", "insert", {}) IN
       IF NoSuchPlan(req[r].planId)
         THEN /\ req' = [req EXCEPT ![r] =
                   Fail([rq EXCEPT !.loc.left = @ \ {i}, !.loc.lost = @ \cup {i}], "store",
                        ErrDetails("Error al generar secciones", StoreError))]
              /\ UNCHANGED <<sections, nextSectionId, fresh, owner, held>>
         ELSE /\ sections' = sections \cup {NewSectionRow(nextSectionId, req[r].planId, req[r].loc.pending[i])}
              /\ nextSectionId' = nextSectionId + 1
              /\ fresh' = {f \in fresh : f.id # req[r].planId}
              /\ req' = [req EXCEPT ![r] =
                   [rq EXCEPT !.loc.left = @ \ {i},
                              !.pc = IF req[r].loc.left = {i} THEN "read" ELSE "insert"]]
  /\ UNCHANGED <<now, users, nextUserId, plans, nextPlanId, reminders, summaries, nextSummaryId,
                 issued, received, deleted, owner, held>>

GenRead(r) ==
  /\ req[r].pc = "read" /\ req[r].route = "genSections"
  /\ req' = [req EXCEPT ![r] =
       Respond(Stmt(@, "plan_sections", "select", {"plan_id"}), 200,
               [k |-> "sections", rows |-> {SectionView(s) : s \in SectionsOf(req[r].planId)}])]
  /\ UNCHANGED <<now, store, issued, received, fresh, deleted, owner, held>>

\* ------------------------------------ PATCH /plans/:planId/sections/:sectionId
\* SELECT content FROM plan_sections WHERE id = ? AND plan_id = ?
SectionInPlan(sectionId, planId) == {s \in sections : s.id = sectionId /\ s.plan_id = planId}
\* ... FROM plan_sections WHERE id = ?
SectionById(sectionId) == {s \in sections : s.id = sectionId}

AdjustReplies == {<<Ws(1), Txt(4), Ws(2)>>, <<Txt(5)>>}

AdjustPlan(r) ==
  /\ req[r].pc = "handler" /\ req[r].route = "adjustSection" /\ ~req[r].absent
  /\ LET rq == Stmt(req[r], "plans", "select", {"id", "user_id"}) IN
       req' = [req EXCEPT ![r] =
         IF ~Truthy(req[r].body.comment)
           THEN Respond(@, 400, Err("El campo \"comment\" es obligatorio"))
         ELSE IF OwnedPlan(req[r].planId, req[r].user.userId) = {}
           THEN Respond(rq, 404, Err("Plan no encontrado"))
         ELSE [rq EXCEPT !.pc = "section"]]
  /\ UNCHANGED <<now, store, issued, received, fresh, deleted, owner, held>>

AdjustSection(r) ==
  /\ req[r].pc = "section" /\ req[r].route = "adjustSection"
  /\ LET rq == Stmt(req[r], "plan_sections", "select", {"id", "plan_id"})
         rows == SectionInPlan(req[r].subId, req[r].planId)
     IN req' = [req EXCEPT ![r] =
          IF rows = {} THEN Respond(rq, 404, Err("Sección no encontrada"))
          ELSE [rq EXCEPT !.pc = "ai", !.loc = [k |-> "sec", content |-> First(rows).content]]]
  /\ UNCHANGED <<now, store, issued, received, fresh, deleted, owner, held>>

\* a handler that writes whatever came of the call
AdjustCallAIRegardless(r) ==
  /\ req[r].pc = "ai" /\ req[r].route = "adjustSection"
  /\ \E up \in {UpFail, UpNoChoices} \cup {UpContent(raw) : raw \in AdjustReplies} :
       LET ai == AiRoundTrip("aiAdjust", req[r].header, now, up)
           q == [req[r] EXCEPT !.aiCalls = IF ai.called THEN @ + 1 ELSE @, !.aiAt = now,
                               !.raised = IF ai.ok THEN @ ELSE @ \cup {ai.kind}]
       IN req' = [req EXCEPT ![r] =
            [q EXCEPT !.pc = "update",
                      !.loc = [k |-> "adj", raw |-> ai.raw, newContent |-> Trim(ai.raw)]]]
  /\ UNCHANGED <<now, store, issued, received, fresh, deleted, owner, held>>

AdjustCallAI(r) ==
  /\ req[r].pc = "ai" /\ req[r].route = "adjustSection"
  /\ \E up \in {UpFail, UpNoChoices} \cup {UpContent(raw) : raw \in AdjustReplies} :
       LET ai == AiRoundTrip("aiAdjust", req[r].header, now, up)
           q == [req[r] EXCEPT !.aiCalls = IF ai.called THEN @ + 1 ELSE @, !.aiAt = now]
       IN req' = [req EXCEPT ![r] =
            IF ~ai.ok THEN Fail(q, ai.kind, ErrDetails("Error al ajustar sección", ai.err))
            ELSE [q EXCEPT !.pc = "update",
                           !.loc = [k |-> "adj", raw |-> ai.raw, newContent |-> Trim(ai.raw)]]]
  /\ UNCHANGED <<now, store, issued, received, fresh, deleted, owner, held>>

\* an UPDATE that appends to the content
AdjustedSectionAppended(s, newContent) ==
  [s EXCEPT !.content = <<@>> \o newContent, !.status = "adjusted"]

\* an UPDATE that marks the section as generated again
AdjustedSectionRegenerated(s, newContent) ==
  [s EXCEPT !.content = newContent, !.status = "generated"]

\* UPDATE plan_sections SET content = ?, status = 'adjusted' WHERE id = ?
AdjustedSection(s, newContent) == [s EXCEPT !.content = newContent, !.status = "adjusted"]

AdjustUpdate(r) ==
  /\ req[r].pc = "update" /\ req[r].route = "adjustSection"
  /\ LET hit == SectionById(req[r].subId) IN
       sections' = (sections \ hit) \cup {AdjustedSection(s, req[r].loc.newContent) : s \in hit}
  /\ req' = [req EXCEPT ![r] = [Stmt(@, "plan_sections", "update", {"id"}) EXCEPT !.pc = "read"]]
  /\ UNCHANGED <<now, users, nextUserId, plans, nextPlanId, nextSectionId, reminders, summaries,
                 nextSummaryId, issued, received, fresh, deleted, owner, held>>

AdjustRead(r) ==
  /\ req[r].pc = "read" /\ req[r].route = "adjustSection"
  /\ LET rows == SectionById(req[r].subId) IN
       req' = [req EXCEPT ![r] =
         Respond(Stmt(@, "plan_sections", "select", {"id"}), 200,
                 IF rows = {} THEN Empty ELSE [k |-> "section", row |-> SectionView(First(rows))])]
  /\ UNCHANGED <<now, store, issued, received, fresh, deleted, owner, held>>

\* ----------------------------------------------- POST /plans/:planId/summary
SummaryReplies ==
  {<<Txt(SliceLimit + 50)>>,
   <<Txt(2), SumObj("S", "e1"), Txt(1)>>,
   <<SumObj("S", "e1"), Txt(2), SumObj("S", "e2")>>}

SummaryPlan(r) ==
  /\ req[r].pc = "handler" /\ req[r].route = "genSummary"
  /\ LET rq == Stmt(req[r], "plans", "select", {"id", "user_id"}) IN
       req' = [req EXCEPT ![r] =
         IF OwnedPlan(req[r].planId, req[r].user.userId) = {}
           THEN Respond(rq, 404, Err("Plan no encontrado"))
           ELSE [rq EXCEPT !.pc = "sections"]]
  /\ UNCHANGED <<now, store, issued, received, fresh, deleted, owner, held>>

SummarySections(r) ==
  /\ req[r].pc = "sections" /\ req[r].route = "genSummary"
  /\ req' = [req EXCEPT ![r] = [Stmt(@, "plan_sections", "select", {"plan_id"}) EXCEPT !.pc = "ai"]]
  /\ UNCHANGED <<now, store, issued, received, fresh, deleted, owner, held>>

SummaryCallAI(r) ==
  /\ req[r].pc = "ai" /\ req[r].route = "genSummary"
  /\ \E up \in {UpFail, UpNoChoices} \cup {UpContent(raw) : raw \in SummaryReplies} :
       LET ai == AiRoundTrip("aiGenerate", req[r].header, now, up)
           q == [req[r] EXCEPT !.aiCalls = IF ai.called THEN @ + 1 ELSE @, !.aiAt = now,
                               !.loc = [k |-> "ai", raw |-> ai.raw]]
       IN req' = [req EXCEPT ![r] =
            IF ~ai.ok THEN Fail(q, ai.kind, ErrDetails("Error al generar resumen", ai.err))
            ELSE IF MatchObject(ai.raw) = <<>>
              THEN Respond(q, 500, ErrDetails("IA no devolvió JSON válido", Slice(ai.raw, SliceLimit)))
            ELSE IF ~ParseObject(MatchObject(ai.raw)).ok
              THEN Fail(q, "parse", ErrDetails("Error al generar resumen", SyntaxError))
            ELSE [q EXCEPT !.pc = "insert",
                           !.loc = [k |-> "sum", raw |-> ai.raw, v |-> ParseObject(MatchObject(ai.raw)).v]]]
  /\ UNCHANGED <<now, store, issued, received, fresh, deleted, owner, held>>

\* an INSERT that replaces the plan's earlier summaries
SummaryInsertReplacing(r) ==
  /\ req[r].pc = "insert" /\ req[r].route = "genSummary"
  /\ nextSummaryId <= MaxSummaries
  /\ ~NoSuchPlan(req[r].planId)
  /\ summaries' = {m \in summaries : m.plan_id # req[r].planId} \cup
         {[id |-> nextSummaryId, plan_id |-> req[r].planId, title |-> req[r].loc.v.title,
           executive_summary |-> req[r].loc.v.executive_summary]}
  /\ nextSummaryId' = nextSummaryId + 1
  /\ req' = [req EXCEPT ![r] =
       Respond(Stmt(@, "plan_summaries", "insert", {}), 200,
               [k |-> "summary", title |-> req[r].loc.v.title,
                executive_summary |-> req[r].loc.v.executive_summary])]
  /\ UNCHANGED <<now, users, nextUserId, plans, nextPlanId, sections, nextSectionId, reminders,
                 issued, received, fresh, deleted, owner, held>>

SummaryInsert(r) ==
  /\ req[r].pc = "insert" /\ req[r].route = "genSummary"
  /\ nextSummaryId <= MaxSummaries
  /\ LET rq == Stmt(req[r], "plan_summaries", "insert", {})
         v == req[r].loc.v
     IN IF NoSuchPlan(req[r].planId)
          THEN /\ req' = [req EXCEPT ![r] = Fail(rq, "store", ErrDetails("Error al generar resumen", StoreError))]
               /\ UNCHANGED <<summaries, nextSummaryId, owner, held>>
          ELSE /\ summaries' = summaries \cup
                     {[id |-> nextSummaryId, plan_id |-> req[r].planId, title |-> v.title,
                       executive_summary |-> v.executive_summary]}
               /\ nextSummaryId' = nextSummaryId + 1
               /\ req' = [req EXCEPT ![r] =
                    Respond(rq, 200, [k |-> "summary", title |-> v.title,
                                      executive_summary |-> v.executive_summary])]
  /\ UNCHANGED <<now, users, nextUserId, plans, nextPlanId, sections, nextSectionId, reminders,
                 issued, received, fresh, deleted, owner, held>>

\* ------------------------------------------------ GET /plans/:planId/export
\* the same SELECT with ORDER BY id ASC
LatestSummaryOldest(planId) ==
  {m \in summaries : m.plan_id = planId /\ \A o \in summaries : o.plan_id = planId => o.id >= m.id}

\* SELECT executive_summary FROM plan_summaries WHERE plan_id = ?
\*  ORDER BY id DESC LIMIT 1
LatestSummary(planId) ==
  {m \in summaries : m.plan_id = planId /\ \A o \in summaries : o.plan_id = planId => o.id <= m.id}

ExportPlan(r) ==
  /\ req[r].pc = "handler" /\ req[r].route = "exportPlan"
  /\ LET rq == Stmt(req[r], "plans", "select", {"id", "user_id"})
         rows == OwnedPlan(req[r].planId, req[r].user.userId)
     IN req' = [req EXCEPT ![r] =
          IF rows = {} THEN Respond(rq, 404, Err("Plan no encontrado"))
          ELSE [rq EXCEPT !.pc = "sections", !.loc = [k |-> "export", title |-> First(rows).title]]]
  /\ UNCHANGED <<now, store, issued, received, fresh, deleted, owner, held>>

ExportSections(r) ==
  /\ req[r].pc = "sections" /\ req[r].route = "exportPlan"
  /\ req' = [req EXCEPT ![r] =
       [Stmt(@, "plan_sections", "select", {"plan_id"}) EXCEPT
          !.pc = "summaries",
          !.loc = [k |-> "export", title |-> req[r].loc.title,
                   sections |-> {[section_type |-> s.section_type, content |-> s.content] :
                                   s \in SectionsOf(req[r].planId)}]]]
  /\ UNCHANGED <<now, store, issued, received, fresh, deleted, owner, held>>

\* a handler whose catch block answers and whose document is ended all the same
ExportRenderAndEnd(r) ==
  /\ req[r].pc = "summaries" /\ req[r].route = "exportPlan"
  /\ LET rq == Stmt(req[r], "plan_summaries", "select", {"plan_id"})
         last == LatestSummary(req[r].planId)
         executive == IF last = {} THEN "" ELSE First(last).executive_summary
         pdf == [k |-> "pdf", filename |-> <<"plan-", req[r].planId, ".pdf">>,
                 title |-> req[r].loc.title, executive |-> executive,
                 sections |-> req[r].loc.sections]
     IN \/ req' = [req EXCEPT ![r] = [rq EXCEPT !.pc = "end", !.loc = [k |-> "doc", pdf |-> pdf]]]
        \/ /\ req[r].loc.title = JsNull
           /\ req' = [req EXCEPT ![r] =
                [Fail(rq, "title", ErrDetails("Error al exportar plan", TypeError))
                   EXCEPT !.pc = "end", !.loc = [k |-> "doc", pdf |-> pdf]]]
  /\ UNCHANGED <<now, store, issued, received, fresh, deleted, owner, held>>

\* the last SELECT, then the document is filled and doc.end() is called; a
\* throw while filling goes to the catch block and doc.end() is not reached
ExportRender(r) ==
  /\ req[r].pc = "summaries" /\ req[r].route = "exportPlan"
  /\ LET rq == Stmt(req[r], "plan_summaries", "select", {"plan_id"})
         last == LatestSummary(req[r].planId)
         executive == IF last = {} THEN "" ELSE First(last).executive_summary
         pdf == [k |-> "pdf", filename |-> <<"plan-", req[r].planId, ".pdf">>,
                 title |-> req[r].loc.title, executive |-> executive,
                 sections |-> req[r].loc.sections]
     IN \/ req' = [req EXCEPT ![r] = [rq EXCEPT !.pc = "end", !.loc = [k |-> "doc", pdf |-> pdf]]]
        \/ /\ req[r].loc.title = JsNull
           /\ req' = [req EXCEPT ![r] = Fail(rq, "title", ErrDetails("Error al exportar plan", TypeError))]
  /\ UNCHANGED <<now, store, issued, received, fresh, deleted, owner, held>>

\* doc.on('end', ..): the document is complete and the response is written
ExportEnd(r) ==
  /\ req[r].pc = "end" /\ req[r].route = "exportPlan"
  /\ req' = [req EXCEPT ![r] = Respond(@, 200, req[r].loc.pdf)]
  /\ UNCHANGED <<now, store, issued, received, fresh, deleted, owner, held>>

\* ------------------------------------------------------ PATCH /reminders/:id
\* SELECT r.id FROM plan_reminders r JOIN plans p ON r.plan_id = p.id
\*  WHERE r.id = ? AND p.user_id = ?
\* the same SELECT without the join on plans
OwnedReminderAnyUser(id, userId) == {m \in reminders : m.id = id}

OwnedReminder(id, userId) ==
  {m \in reminders : m.id = id /\ \E p \in plans : p.id = m.plan_id /\ p.user_id = userId}
\* ... FROM plan_reminders WHERE id = ?
ReminderById(id) == {m \in reminders : m.id = id}
ReminderView(m) == [id |-> m.id, rule |-> m.rule, is_active |-> m.is_active]

UpdateReminderCheck(r) ==
  /\ req[r].pc = "handler" /\ req[r].route = "updateReminder" /\ ~req[r].absent
  /\ LET rq == Stmt(req[r], "plan_reminders", "select", {"id", "user_id"}) IN
       req' = [req EXCEPT ![r] =
         IF req[r].body.rule = Undef /\ req[r].body.is_active = Undef
           THEN Respond(@, 400, Err("Nada para actualizar"))
         ELSE IF OwnedReminder(req[r].subId, req[r].user.userId) = {}
           THEN Respond(rq, 404, Err("Recordatorio no encontrado"))
         ELSE [rq EXCEPT !.pc = "update"]]
  /\ UNCHANGED <<now, store, issued, received, fresh, deleted, owner, held>>

\* UPDATE plan_reminders SET <fields>, updated_at = CURRENT_TIMESTAMP WHERE id = ?
PatchedReminder(m, b) ==
  [m EXCEPT !.rule = IF b.rule # Undef THEN b.rule.v ELSE @,
            !.is_active = IF b.is_active # Undef THEN b.is_active.v ELSE @]

UpdateReminderExec(r) ==
  /\ req[r].pc = "update" /\ req[r].route = "updateReminder"
  /\ LET hit == ReminderById(req[r].subId) IN
       reminders' = (reminders \ hit) \cup {PatchedReminder(m, req[r].body) : m \in hit}
  /\ req' = [req EXCEPT ![r] = [Stmt(@, "plan_reminders", "update", {"id"}) EXCEPT !.pc = "read"]]
  /\ UNCHANGED <<now, users, nextUserId, plans, nextPlanId, sections, nextSectionId, summaries,
                 nextSummaryId, issued, received, fresh, deleted, owner, held>>

UpdateReminderRead(r) ==
  /\ req[r].pc = "read" /\ req[r].route = "updateReminder"
  /\ LET rows == ReminderById(req[r].subId) IN
       req' = [req EXCEPT ![r] =
         Respond(Stmt(@, "plan_reminders", "select", {"id"}), 200,
                 IF rows = {} THEN Empty ELSE [k |-> "reminder", row |-> ReminderView(First(rows))])]
  /\ UNCHANGED <<now, store, issued, received, fresh, deleted, owner, held>>

\* ----------------------------------------------------- DELETE /reminders/:id
DeleteReminderCheck(r) ==
  /\ req[r].pc = "handler" /\ req[r].route = "deleteReminder"
  /\ LET rq == Stmt(req[r], "plan_reminders", "select", {"id", "user_id"}) IN
       req' = [req EXCEPT ![r] =
         IF OwnedReminder(req[r].subId, req[r].user.userId) = {}
           THEN Respond(rq, 404, Err("Recordatorio no encontrado"))
           ELSE [rq EXCEPT !.pc = "delete"]]
  /\ UNCHANGED <<now, store, issued, received, fresh, deleted, owner, held>>

DeleteReminderExec(r) ==
  /\ req[r].pc = "delete" /\ req[r].route = "deleteReminder"
  /\ reminders' = reminders \ ReminderById(req[r].subId)
  /\ req' = [req EXCEPT ![r] = Respond(Stmt(@, "plan_reminders", "delete", {"id"}), 204, Empty)]
  /\ UNCHANGED <<now, users, nextUserId, plans, nextPlanId, sections, nextSectionId, summaries,
                 nextSummaryId, issued, received, fresh, deleted, owner, held>>

\* ------------------------------------------------------------- failures
\* the handlers that destructure req.body before their try block
BodyRoutes == {"register", "login", "createPlan", "updatePlan", "adjustSection", "updateReminder"}

\* const { ... } = req.body with req.body undefined: the TypeError is thrown
\* outside try/catch, the async handler's promise rejects, and the answer is
\* the framework's error page
DestructureThrows(r) ==
  /\ req[r].pc = "handler" /\ req[r].route \in BodyRoutes /\ req[r].absent
  /\ req' = [req EXCEPT ![r] =
       [@ EXCEPT !.pc = "done", !.resp = Resp(500, [k |-> "html"]), !.sent = @ + 1,
                 !.raised = {"body"}, !.escaped = TRUE]]
  /\ UNCHANGED <<now, store, issued, received, fresh, deleted, owner, held>>

\* the request is about to call pool.query
AtQuery(rq) ==
  \/ /\ rq.pc \in {"sections", "update", "read", "delete", "insert", "section", "summaries"}
     /\ ~(rq.route = "genSections" /\ rq.pc = "insert")
  \/ /\ rq.pc = "handler" /\ ~rq.absent
     /\ CASE rq.route \in {"register", "login"} -> Truthy(rq.body.email) /\ Truthy(rq.body.password)
          [] rq.route = "updatePlan" -> PlanPatchFields(rq.body) # {}
          [] rq.route = "adjustSection" -> Truthy(rq.body.comment)
          [] rq.route = "updateReminder" -> ~(rq.body.rule = Undef /\ rq.body.is_active = Undef)
          [] rq.route \in {"aiGenerate", "aiAdjust", "health", "none"} -> FALSE
          [] OTHER -> TRUE

\* the error pool.query rejects with when the store cannot be reached
StoreDown == [k |-> "StoreError", message |-> "ECONNREFUSED"]

\* the body each handler's catch block answers with
CatchBody(route, err) ==
  CASE route = "listPlans" -> Err("Error al listar planes")
    [] route = "createPlan" -> Err("Error al crear plan")
    [] route = "getPlan" -> Err("Error al obtener detalle del plan")
    [] route = "updatePlan" -> Err("Error al actualizar plan")
    [] route = "deletePlan" -> Err("Error al eliminar plan")
    [] route = "genSections" -> ErrDetails("Error al generar secciones", err)
    [] route = "adjustSection" -> ErrDetails("Error al ajustar sección", err)
    [] route = "genSummary" -> ErrDetails("Error al generar resumen", err)
    [] route = "exportPlan" -> ErrDetails("Error al exportar plan", err)
    [] route = "updateReminder" -> Err("Error al actualizar recordatorio")
    [] route = "deleteReminder" -> Err("Error al eliminar recordatorio")
    [] OTHER -> Err("Error interno del servidor")

\* a pool.query that rejects: the catch block of the handler answers
QueryFails(r) ==
  /\ AtQuery(req[r])
  /\ req' = [req EXCEPT ![r] =
       Fail([@ EXCEPT !.dbOps = @ + 1], "store", CatchBody(req[r].route, StoreDown))]
  /\ UNCHANGED <<now, store, issued, received, fresh, deleted, owner, held>>

\* ------------------------------------------------------ the clients' side
\* a token whose signature does not verify
Forged == Token(1, "a@x", MaxTime + 1, "bad")

BadHeaders ==
  {NoHeader, Header(<<W("Bearer")>>), Header(<<W("Bearer"), W("")>>),
   Header(<<W("Bearer"), J(Forged)>>)}
   \cup {Header(<<W("Basic"), J(x.token)>>) : x \in issued}
GoodHeaders == {Header(<<W("Bearer"), J(x.token)>>) : x \in issued}

Titles == {Undef, Str("T")}
Parameters == {Undef, Obj(<<>>), Obj(<< <<"Nutrición", "x">>, <<"Bienestar", "y">> >>)}
Credentials == {Undef, Str(""), Str("a@x"), Str("c@x")}
Secrets == {Undef, Str("p1"), Str("p2")}
PlanIds == 1..MaxPlans
TargetIds == {1, 2, 3}
Comments == {Undef, Str(""), Str("shorter")}
Rules == {Undef, Str("weekly")}
Actives == {Undef, Bool(FALSE)}
Payloads == {Undef, Obj(<<>>), Obj(<< <<"model", "m">>, <<"messages", "q">> >>)}

Start(r, route, header, planId, subId, body) ==
  /\ received < MaxRequests
  /\ received' = received + 1
  /\ req' = [req EXCEPT ![r] =
       [IdleReq EXCEPT !.route = route, !.pc = IF Protected(route) THEN "auth" ELSE "handler",
                       !.header = header, !.planId = planId, !.subId = subId, !.body = body,
                       !.taken = body.email.k = "str" /\ DuplicateEmail(body.email.v)]]
  /\ UNCHANGED <<now, store, issued, fresh, deleted, owner, held>>

\* one of the inserts of generateSections is rejected and the ones that were
\* stored are put aside again
GenInsertFailsRollingBack(r) ==
  /\ req[r].pc = "insert" /\ req[r].route = "genSections"
  /\ \E i \in req[r].loc.left :
       req' = [req EXCEPT ![r] =
         Fail([@ EXCEPT !.dbOps = @ + 1, !.loc.left = @ \ {i}, !.loc.lost = @ \cup {i}], "store",
              ErrDetails("Error al generar secciones", StoreDown))]
  /\ sections' = {s \in sections : s.plan_id # req[r].planId}
  /\ UNCHANGED <<now, users, nextUserId, plans, nextPlanId, nextSectionId, reminders, summaries,
                 nextSummaryId, issued, received, fresh, deleted, owner, held>>

\* one of the inserts Promise.all waits for is rejected: Promise.all rejects
\* and the catch block answers; the other inserts have been issued already
GenInsertFails(r) ==
  /\ req[r].pc = "insert" /\ req[r].route = "genSections"
  /\ \E i \in req[r].loc.left :
       req' = [req EXCEPT ![r] =
         Fail([@ EXCEPT !.dbOps = @ + 1, !.loc.left = @ \ {i}, !.loc.lost = @ \cup {i}], "store",
              ErrDetails("Error al generar secciones", StoreDown))]
  /\ UNCHANGED <<now, store, issued, received, fresh, deleted, owner, held>>

\* an insert that was still under way when the handler answered
GenInsertLate(r) ==
  /\ req[r].pc = "done" /\ req[r].route = "genSections"
  /\ req[r].loc.k = "ai" /\ req[r].loc.lost # {}
  /\ nextSectionId <= MaxSections
  /\ \E i \in req[r].loc.left :
       \/ /\ ~NoSuchPlan(req[r].planId)
          /\ sections' = sections \cup {NewSectionRow(nextSectionId, req[r].planId, req[r].loc.pending[i])}
          /\ nextSectionId' = nextSectionId + 1
          /\ fresh' = {f \in fresh : f.id # req[r].planId}
          /\ req' = [req EXCEPT ![r] = [Stmt(@, "plan_sections", "insert", {}) EXCEPT !.loc.left = @ \ {i}]]
       \/ /\ req' = [req EXCEPT ![r] =
                 [@ EXCEPT !.dbOps = @ + 1, !.loc.left = @ \ {i}, !.loc.lost = @ \cup {i}]]
          /\ UNCHANGED <<sections, nextSectionId, fresh>>
  /\ UNCHANGED <<now, users, nextUserId, plans, nextPlanId, reminders, summaries, nextSummaryId,
                 issued, received, deleted, owner, held>>

\* --------------------------------------------------------- GET /api/health
\* const conn = await pool.getConnection()
HealthAcquire(r) ==
  /\ req[r].pc = "handler" /\ req[r].route = "health"
  /\ \/ /\ req' = [req EXCEPT ![r].pc = "ping"]
        /\ held' = held + 1
     \/ /\ req' = [req EXCEPT ![r] =
                Respond(@, 500, [k |-> "health", status |-> "ERROR", message |-> StoreDown.message])]
        /\ held' = held
  /\ UNCHANGED <<now, store, issued, received, fresh, deleted, owner>>

\* await conn.ping(); conn.release(); res.json(..): when the ping rejects,
\* control goes to the catch block and conn.release() is not reached; the
\* driver may discard a connection that broke, or keep it checked out
HealthPing(r) ==
  /\ req[r].pc = "ping" /\ req[r].route = "health"
  /\ \/ /\ held' = held - 1
        /\ req' = [req EXCEPT ![r] =
                Respond(@, 200, [k |-> "health", status |-> "OK", db |-> "conectada"])]
     \/ /\ held' \in {held, held - 1}
        /\ req' = [req EXCEPT ![r] =
                Respond(@, 500, [k |-> "health", status |-> "ERROR", message |-> StoreDown.message])]
  /\ UNCHANGED <<now, store, issued, received, fresh, deleted, owner>>

\* a request without a body, where express.json() leaves req.body undefined
StartAbsent(r, route, header, planId, subId) ==
  /\ received < MaxRequests
  /\ received' = received + 1
  /\ req' = [req EXCEPT ![r] =
       [IdleReq EXCEPT !.route = route, !.pc = IF Protected(route) THEN "auth" ELSE "handler",
                       !.header = header, !.planId = planId, !.subId = subId, !.absent = TRUE]]
  /\ UNCHANGED <<now, store, issued, fresh, deleted, owner, held>>

Quiet == \A s \in Slots : req[s].pc = "idle"

ReceiveNoBody(r) ==
  /\ Quiet
  /\ \E route \in BodyRoutes, h \in {NoHeader} \cup GoodHeaders :
       StartAbsent(r, route, h, 1, 1)

\* app.get('/api/health', ..)
ReceiveHealth(r) ==
  /\ Quiet
  /\ Start(r, "health", NoHeader, 0, 0, NoBody)

\* one client at a time: app.use('/auth', authRouter)
ReceiveAuth(r) ==
  /\ Quiet
  /\ \E route \in {"register", "login"}, e \in Credentials, pw \in Secrets :
       Start(r, route, NoHeader, 0, 0, [NoBody EXCEPT !.email = e, !.password = pw])

\* app.use('/plans', plansRouter)
ReceivePlans(r) ==
  /\ Quiet
  /\ \E h \in BadHeaders \cup GoodHeaders :
       \/ Start(r, "listPlans", h, 0, 0, NoBody)
       \/ \E t \in Titles, p \in Parameters :
            Start(r, "createPlan", h, 0, 0, [NoBody EXCEPT !.title = t, !.parameters = p])
       \/ \E id \in PlanIds : Start(r, "getPlan", h, id, 0, NoBody)
       \/ \E id \in PlanIds, t \in Titles, p \in Parameters :
            Start(r, "updatePlan", h, id, 0, [NoBody EXCEPT !.title = t, !.parameters = p])
       \/ \E id \in PlanIds : Start(r, "deletePlan", h, id, 0, NoBody)

\* app.use('/reminders', remindersRouter)
ReceiveReminders(r) ==
  /\ Quiet
  /\ \E h \in BadHeaders \cup GoodHeaders, id \in TargetIds :
       \/ \E rule \in Rules, act \in Actives :
            Start(r, "updateReminder", h, 0, id, [NoBody EXCEPT !.rule = rule, !.is_active = act])
       \/ Start(r, "deleteReminder", h, 0, id, NoBody)

\* the section routes of plansRouter
ReceiveSections(r) ==
  /\ Quiet
  /\ \E h \in BadHeaders \cup GoodHeaders, id \in PlanIds :
       \/ Start(r, "genSections", h, id, 0, NoBody)
       \/ Start(r, "genSummary", h, id, 0, NoBody)
       \/ Start(r, "exportPlan", h, id, 0, NoBody)
       \/ \E sid \in TargetIds, c \in Comments :
            Start(r, "adjustSection", h, id, sid, [NoBody EXCEPT !.comment = c])

\* app.use('/ai', aiRouter)
ReceiveAI(r) ==
  /\ Quiet
  /\ \E h \in BadHeaders \cup GoodHeaders, route \in {"aiGenerate", "aiAdjust"}, p \in Payloads :
       Start(r, route, h, 0, 0, [NoBody EXCEPT !.payload = p])

\* the response has been written; the slot is free again
Clear(r) ==
  /\ req[r].pc = "done"
  /\ req' = [req EXCEPT ![r] = IdleReq]
  /\ UNCHANGED <<now, store, issued, received, fresh, deleted, owner, held>>

\* ----------------------------------------------------------- initial state
\* The store outlives the process: the server starts on a database that
\* already holds two users with a plan each, and clients that still hold
\* the tokens of an earlier login.
SeedUsers ==
  {[id |-> 1, email |-> "a@x", password_hash |-> Hash("p1", "s")],
   [id |-> 2, email |-> "b@x", password_hash |-> Hash("p2", "s")]}
SeedPlans ==
  {NewPlanRow(1, 1, Str("A"), Obj(<< <<"Nutrición", "x">> >>)),
   NewPlanRow(2, 2, Str("B"), Obj(<<>>))}
SeedSections ==
  {[id |-> 1, plan_id |-> 1, section_type |-> "Profesional", content |-> "c0", status |-> "generated"],
   [id |-> 2, plan_id |-> 2, section_type |-> "Hobbies", content |-> "c0", status |-> "generated"]}
SeedReminders ==
  {[id |-> 1, plan_id |-> 1, rule |-> "daily", is_active |-> TRUE],
   [id |-> 2, plan_id |-> 2, rule |-> "daily", is_active |-> TRUE]}
SeedSummaries ==
  {[id |-> 1, plan_id |-> 1, title |-> "A", executive_summary |-> "e0"]}
SeedLogins ==
  {[token |-> Token(1, "a@x", ExpiresIn, "good"), email |-> "a@x", at |-> 0],
   [token |-> Token(2, "b@x", ExpiresIn, "good"), email |-> "b@x", at |-> 0]}

Init ==
  /\ now = 0
  /\ users = SeedUsers
  /\ nextUserId = 3
  /\ plans = SeedPlans
  /\ nextPlanId = 3
  /\ sections = SeedSections
  /\ nextSectionId = 3
  /\ reminders = SeedReminders
  /\ summaries = SeedSummaries
  /\ nextSummaryId = 2
  /\ issued = SeedLogins
  /\ req = [r \in Slots |-> IdleReq]
  /\ received = 0
  /\ fresh = {}
  /\ deleted = {}
  /\ owner = {[id |-> p.id, user_id |-> p.user_id] : p \in SeedPlans}
  /\ held = 0

Handle(r) ==
  \/ Authenticate(r)
  \/ RegisterCheck(r) \/ RegisterInsert(r) \/ Login(r)
  \/ ListPlans(r) \/ CreatePlan(r)
  \/ GetPlanSelect(r) \/ GetPlanSections(r)
  \/ UpdatePlanCheck(r) \/ UpdatePlanExec(r) \/ UpdatePlanRead(r)
  \/ DeletePlanCheck(r) \/ DeletePlanExec(r)
  \/ GenSelect(r) \/ GenCallAI(r) \/ GenInsert(r) \/ GenRead(r)
  \/ AdjustPlan(r) \/ AdjustSection(r) \/ AdjustCallAI(r) \/ AdjustUpdate(r) \/ AdjustRead(r)
  \/ SummaryPlan(r) \/ SummarySections(r) \/ SummaryCallAI(r) \/ SummaryInsert(r)
  \/ ExportPlan(r) \/ ExportSections(r) \/ ExportRender(r) \/ ExportEnd(r)
  \/ UpdateReminderCheck(r) \/ UpdateReminderExec(r) \/ UpdateReminderRead(r)
  \/ DeleteReminderCheck(r) \/ DeleteReminderExec(r)
  \/ AiProxy(r)

Next ==
  \/ Tick
  \/ \E r \in Slots :
       \/ ReceiveAuth(r) \/ ReceivePlans(r) \/ ReceiveSections(r) \/ ReceiveReminders(r) \/ ReceiveAI(r)
       \/ Handle(r) \/ Clear(r)

Spec == Init /\ [][Next]_vars

\* ------------------------------------------------- the store can fail
\* The same clients, one at a time, with a store that can reject any
\* statement and requests that can come without a body.
NextFaults ==
  \/ Next
  \/ \E r \in Slots : ReceiveNoBody(r) \/ DestructureThrows(r) \/ QueryFails(r)
  \/ \E r \in Slots : GenInsertFails(r) \/ GenInsertLate(r)
  \/ \E r \in Slots : ReceiveHealth(r) \/ HealthAcquire(r) \/ HealthPing(r)

SpecFaults == Init /\ [][NextFaults]_vars

\* -------------------------------------------------- overlapping requests
\* Two clients whose requests overlap in time: the owner of plan 1 (user 1)
\* and another user (user 2) aim at the same plan, section and reminder,
\* and two visitors register or log in with the same email.
TokenOf(uid) == (CHOOSE x \in SeedLogins : x.token.userId = uid).token
BearerOf(uid) == Header(<<W("Bearer"), J(TokenOf(uid))>>)

RaceRequests ==
  UNION {
    {[route |-> "getPlan", header |-> BearerOf(u), planId |-> 1, subId |-> 0, body |-> NoBody],
     [route |-> "updatePlan", header |-> BearerOf(u), planId |-> 1, subId |-> 0,
      body |-> [NoBody EXCEPT !.title = Str("T")]],
     [route |-> "deletePlan", header |-> BearerOf(u), planId |-> 1, subId |-> 0, body |-> NoBody],
     [route |-> "genSections", header |-> BearerOf(u), planId |-> 1, subId |-> 0, body |-> NoBody],
     [route |-> "genSummary", header |-> BearerOf(u), planId |-> 1, subId |-> 0, body |-> NoBody],
     [route |-> "adjustSection", header |-> BearerOf(u), planId |-> 1, subId |-> 1,
      body |-> [NoBody EXCEPT !.comment = Str("shorter")]],
     [route |-> "updateReminder", header |-> BearerOf(u), planId |-> 0, subId |-> 1,
      body |-> [NoBody EXCEPT !.rule = Str("weekly")]],
     [route |-> "deleteReminder", header |-> BearerOf(u), planId |-> 0, subId |-> 1, body |-> NoBody]}
    : u \in {1, 2}}
  \cup
    {[route |-> "getPlan", header |-> BearerOf(2), planId |-> 3, subId |-> 0, body |-> NoBody],
     [route |-> "createPlan", header |-> BearerOf(1), planId |-> 0, subId |-> 0,
      body |-> [NoBody EXCEPT !.title = Str("T")]]}
  \cup
    {[route |-> route, header |-> NoHeader, planId |-> 0, subId |-> 0,
      body |-> [NoBody EXCEPT !.email = Str(e), !.password = Str(pw)]] :
       route \in {"register", "login"}, e \in {"a@x", "c@x"}, pw \in {"p1", "p2"}}

ReceiveRace(r) ==
  /\ req[r].pc = "idle"
  /\ \E q \in RaceRequests : Start(r, q.route, q.header, q.planId, q.subId, q.body)

HandleRace(r) ==
  \/ Authenticate(r)
  \/ RegisterCheck(r) \/ RegisterInsert(r) \/ Login(r)
  \/ CreatePlan(r)
  \/ GetPlanSelect(r) \/ GetPlanSections(r)
  \/ UpdatePlanCheck(r) \/ UpdatePlanExec(r) \/ UpdatePlanRead(r)
  \/ DeletePlanCheck(r) \/ DeletePlanExec(r)
  \/ GenSelect(r) \/ GenCallAI(r) \/ GenInsert(r) \/ GenRead(r)
  \/ AdjustPlan(r) \/ AdjustSection(r) \/ AdjustCallAI(r) \/ AdjustUpdate(r) \/ AdjustRead(r)
  \/ SummaryPlan(r) \/ SummarySections(r) \/ SummaryCallAI(r) \/ SummaryInsert(r)
  \/ UpdateReminderCheck(r) \/ UpdateReminderExec(r) \/ UpdateReminderRead(r)
  \/ DeleteReminderCheck(r) \/ DeleteReminderExec(r)

NextRace == \E r \in Slots : ReceiveRace(r) \/ HandleRace(r) \/ Clear(r)

SpecRace == Init /\ [][NextRace]_vars

\* ==========================================================================
\* Properties
\* ==========================================================================
\* the header has the shape 'Bearer <token>'
BearerShaped(h) == h.present /\ Len(h.parts) = 2 /\ h.parts[1] = W("Bearer")
\* the token of a Bearer-shaped header passes the signature and expiry check at t
Verifies(h, t) == h.parts[2].k = "jwt" /\ h.parts[2].v.sig = "good" /\ t < h.parts[2].v.exp
\* the body of the route handler has run (at all) for the request
HandlerRan(rq) ==
  \/ rq.dbOps > 0 \/ rq.aiCalls > 0
  \/ rq.pc \notin {"idle", "auth", "done"}
  \/ rq.pc = "done" /\ rq.resp.status \notin {401, 403}
UserIdOf(email) == (CHOOSE u \in users : u.email = email).id

\* C1: a protected handler runs, touches the store or calls the AI service
\* only for a request whose Authorization header is 'Bearer <token>' with a
\* token that verified when the middleware ran; a missing or misshapen
\* header ends the request with 401 and a token that fails verification
\* with 403; a plans handler reaches the upstream service through the AI
\* proxy only if the token verifies there again.
C1_NoHandlerWithoutAuth ==
  \A r \in Slots :
    LET rq == req[r] IN
    (Protected(rq.route) /\ rq.pc # "idle") =>
      /\ HandlerRan(rq) =>
            rq.authAt >= 0 /\ BearerShaped(rq.header) /\ Verifies(rq.header, rq.authAt)
      /\ (rq.authAt >= 0 /\ ~BearerShaped(rq.header)) =>
            rq.pc = "done" /\ rq.resp.status = 401
      /\ (rq.authAt >= 0 /\ BearerShaped(rq.header) /\ ~Verifies(rq.header, rq.authAt)) =>
            rq.pc = "done" /\ rq.resp.status = 403
      /\ (rq.aiCalls > 0 /\ rq.route \notin {"aiGenerate", "aiAdjust"}) =>
            rq.aiAt >= 0 /\ Verifies(rq.header, rq.aiAt)

\* a DELETE with a forged token was answered 403 without touching the store
C1_Witness ==
  \E r \in Slots :
    /\ req[r].route = "deletePlan" /\ req[r].header = Header(<<W("Bearer"), J(Forged)>>)
    /\ req[r].pc = "done" /\ req[r].resp.status = 403 /\ req[r].dbOps = 0

\* C2: a token a login returned for a user, presented in a Bearer header
\* before its expiry (the login's clock value plus JWT_EXPIRES_IN), lets the
\* request through with req.user.userId the id of that user's row; presented
\* at or after its expiry, the request ends with 403 and no handler runs.
C2_TokenAuthorizesItsUser ==
  \A r \in Slots : \A x \in issued :
    LET rq == req[r] IN
    (Protected(rq.route) /\ rq.header = Header(<<W("Bearer"), J(x.token)>>) /\ rq.authAt >= 0) =>
      IF rq.authAt < x.at + ExpiresIn
        THEN /\ rq.authed /\ rq.user.userId = UserIdOf(x.email)
             /\ rq.pc = "done" => rq.resp.status # 403
        ELSE rq.pc = "done" /\ rq.resp.status = 403 /\ ~HandlerRan(rq)

\* a token was presented once the clock had reached its expiry
C2_WitnessExpired ==
  \E r \in Slots : \E x \in issued :
    /\ req[r].header = Header(<<W("Bearer"), J(x.token)>>)
    /\ req[r].authAt >= x.at + ExpiresIn
    /\ req[r].resp.status = 403

\* a token of a login of this run let a request through before it expired
C2_Witness ==
  \E r \in Slots : \E x \in issued \ SeedLogins :
    /\ req[r].header = Header(<<W("Bearer"), J(x.token)>>)
    /\ req[r].route = "createPlan" /\ req[r].resp.status = 201
    /\ req[r].user.userId = UserIdOf(x.email)
\* the plan with that id belongs to user u
PlanOf(planId, u) == [id |-> planId, user_id |-> u] \in owner
\* the rows a step added to, changed in or removed from a table
Touched(before, after) == (before \ after) \cup (after \ before)

\* what a step of a request of user u may touch and return: rows of u only
OwnRowsOnly(r) ==
  LET u == req[r].user.userId
      b == req'[r].resp.body
  IN /\ \A p \in Touched(plans, plans') : p.user_id = u
     /\ \A s \in Touched(sections, sections') : PlanOf(s.plan_id, u)
     /\ \A m \in Touched(reminders, reminders') : PlanOf(m.plan_id, u)
     /\ \A m \in Touched(summaries, summaries') : PlanOf(m.plan_id, u)
     /\ (req[r].pc # "done" /\ req'[r].pc = "done") =>
          CASE b.k = "plans" -> \A row \in b.rows : PlanOf(row.id, u)
            [] b.k = "plan" /\ "row" \in DOMAIN b -> PlanOf(b.row.id, u)
            [] b.k = "detail" ->
                 /\ PlanOf(b.plan.id, u)
                 /\ \A v \in b.sections : \E s \in sections : s.id = v.id /\ PlanOf(s.plan_id, u)
            [] b.k = "sections" -> \A v \in b.rows : \E s \in sections : s.id = v.id /\ PlanOf(s.plan_id, u)
            [] b.k = "section" -> \E s \in sections : s.id = b.row.id /\ PlanOf(s.plan_id, u)
            [] b.k = "reminder" -> \E m \in reminders : m.id = b.row.id /\ PlanOf(m.plan_id, u)
            [] OTHER -> TRUE

\* no step of a request returns, changes or removes a row of another user
C3_Isolation == [][\A r \in Slots : req'[r] # req[r] => OwnRowsOnly(r)]_vars

\* every SELECT, UPDATE and DELETE on a plan or on a row under a plan names
\* the owner or the owning plan in its WHERE clause
C3_StatementsOwnerScoped ==
  \A r \in Slots : \A st \in req[r].stmts :
    (st.table \in {"plans", "plan_sections", "plan_reminders", "plan_summaries"}
       /\ st.op \in {"select", "update", "delete"})
      => st.filter \cap {"user_id", "plan_id"} # {}

\* C3: in every interleaving, no request of user U returns, changes or
\* removes a plan, section, reminder or summary under another user's plan,
\* and every read, update and delete statement is restricted by the
\* ownership chain, not by the entity id alone.
C3_OwnershipChain == C3_Isolation /\ []C3_StatementsOwnerScoped

\* the statement the section handler issues with the id alone
C3_IdOnlyStatement ==
  \E r \in Slots :
    /\ req[r].route = "adjustSection"
    /\ [table |-> "plan_sections", op |-> "update", filter |-> {"id"}] \in req[r].stmts

\* C4: a getPlan request of a user who does not own the plan ends with 404
\* and the body of a plan that does not exist: the response for another
\* user's plan equals the response for an id no plan has.
C4_NotFoundAlike ==
  /\ \A r \in Slots :
       LET rq == req[r] IN
       (rq.route = "getPlan" /\ rq.dbOps > 0 /\ rq.saw # {rq.user.userId}) =>
         rq.pc = "done" /\ rq.resp = Resp(404, Err("Plan no encontrado"))
  /\ \A r1, r2 \in Slots :
       (/\ req[r1].route = "getPlan" /\ req[r1].pc = "done" /\ req[r1].dbOps > 0
        /\ req[r2].route = "getPlan" /\ req[r2].pc = "done" /\ req[r2].dbOps > 0
        /\ req[r1].user = req[r2].user
        /\ req[r1].saw = {}
        /\ req[r2].saw # {} /\ req[r2].user.userId \notin req[r2].saw)
         => req[r1].resp = req[r2].resp

\* the same user was answered for another user's plan and for a missing one
C4_Witness ==
  \E r1, r2 \in Slots :
    /\ req[r1].route = "getPlan" /\ req[r1].pc = "done" /\ req[r1].saw = {} /\ req[r1].dbOps > 0
    /\ req[r2].route = "getPlan" /\ req[r2].pc = "done" /\ req[r2].saw = {1}
    /\ req[r1].user.userId = 2 /\ req[r2].user.userId = 2
    /\ req[r2].resp.status = 404

\* C5: a registration with email and password whose email a registered
\* user already has ends with 409, issues no INSERT, and leaves one user
\* row with that email.
C5_SecondRegistrationConflict ==
  \A r \in Slots :
    LET rq == req[r] IN
    (rq.route = "register" /\ rq.taken /\ Truthy(rq.body.password)) =>
      /\ rq.pc \in {"handler", "done"}
      /\ rq.pc = "done" => rq.resp = Resp(409, Err("El email ya está registrado"))
      /\ \A st \in rq.stmts : st.op # "insert"
      /\ Cardinality({u \in users : u.email = rq.body.email.v}) = 1

\* an email registered in this run was refused the second time
C5_Witness ==
  \E r \in Slots :
    /\ req[r].route = "register" /\ req[r].body.email = Str("c@x") /\ req[r].taken
    /\ req[r].pc = "done" /\ req[r].resp.status = 409
    /\ nextUserId = 4

\* the stored hash of the email's user does not match the password
WrongPassword(b) == \E u \in users : u.email = b.email.v /\ ~Compare(b.password.v, u.password_hash)

\* C6: of two logins with non-empty email and password, one with an email
\* no user had and one with a user's email and a wrong password, both are
\* answered 401 with the same body.
C6_LoginFailuresAlike ==
  \A r1, r2 \in Slots :
    (/\ req[r1].route = "login" /\ req[r1].pc = "done"
     /\ req[r2].route = "login" /\ req[r2].pc = "done"
     /\ Truthy(req[r1].body.email) /\ Truthy(req[r1].body.password)
     /\ Truthy(req[r2].body.email) /\ Truthy(req[r2].body.password)
     /\ req[r1].saw = {}
     /\ req[r2].saw = {"known"} /\ WrongPassword(req[r2].body))
      => req[r1].resp = req[r2].resp /\ req[r1].resp.status = 401

\* both kinds of failed login were answered
C6_Witness ==
  \E r1, r2 \in Slots :
    /\ req[r1].route = "login" /\ req[r1].pc = "done" /\ req[r1].saw = {}
    /\ req[r1].body.email = Str("c@x")
    /\ req[r2].route = "login" /\ req[r2].pc = "done" /\ req[r2].saw = {"known"}
    /\ req[r2].body.email = Str("a@x") /\ WrongPassword(req[r2].body)
    /\ req[r1].resp.status = 401 /\ req[r2].resp.status = 401
\* C7: once a deletePlan for plan P was answered 204, no plan_sections,
\* plan_reminders or plan_summaries row has plan_id = P, also when a
\* generateSections or generateSummary request for P had passed its
\* ownership check before the DELETE and issues its INSERT after it.
C7_NoOrphansAfterDelete ==
  \A p \in deleted :
    /\ \A s \in sections : s.plan_id # p
    /\ \A m \in reminders : m.plan_id # p
    /\ \A m \in summaries : m.plan_id # p

\* a generation that was in flight during the delete had its INSERT refused
C7_Witness ==
  \E r \in Slots :
    /\ req[r].route \in {"genSections", "genSummary"} /\ req[r].planId \in deleted
    /\ req[r].pc = "done" /\ req[r].resp.status = 500
    /\ \E st \in req[r].stmts : st.op = "insert"
    /\ \A m \in sections \cup summaries : m.plan_id # req[r].planId

\* two objects hold the same members, in whatever order
SameMapping(a, b) ==
  /\ a.k = "obj" /\ b.k = "obj"
  /\ {a.v[i] : i \in DOMAIN a.v} = {b.v[i] : i \in DOMAIN b.v}
  /\ Len(a.v) = Len(b.v)

\* C8: getPlan of a plan createPlan made, with no write to the plan in
\* between, answers 200 with the title and the parameters mapping of the
\* createPlan request (the empty mapping when it had none), status 'draft'
\* and no sections.
C8_CreateThenGet ==
  \A r \in Slots : \A f \in fresh :
    LET rq == req[r] IN
    (rq.route = "getPlan" /\ rq.pc = "done" /\ rq.planId = f.id /\ rq.resp.status = 200) =>
      /\ rq.resp.body.plan.id = f.id
      /\ rq.resp.body.plan.title = f.title
      /\ SameMapping(rq.resp.body.plan.parameters, f.parameters)
      /\ rq.resp.body.plan.status = "draft"
      /\ rq.resp.body.sections = {}

\* a plan created with a title and two parameters was read back
C8_Witness ==
  \E r \in Slots : \E f \in fresh :
    /\ req[r].route = "getPlan" /\ req[r].pc = "done" /\ req[r].planId = f.id
    /\ req[r].resp.status = 200
    /\ f.title = Str("T") /\ Len(f.parameters.v) = 2

\* C9: an updatePlan request with neither title nor parameters, and an
\* updateReminder request with neither rule nor is_active, is answered 400
\* (the reminder with 'Nada para actualizar') without a single store
\* statement, whatever the target id.
C9_EmptyPatchRejected ==
  \A r \in Slots :
    LET rq == req[r]
        emptyPlan == rq.route = "updatePlan" /\ rq.body.title = Undef /\ rq.body.parameters = Undef
        emptyReminder == rq.route = "updateReminder" /\ rq.body.rule = Undef /\ rq.body.is_active = Undef
    IN ((emptyPlan \/ emptyReminder) /\ rq.authed) =>
         /\ rq.dbOps = 0 /\ rq.stmts = {}
         /\ rq.pc \in {"handler", "done"}
         /\ rq.pc = "done" => rq.resp.status = 400
         /\ (rq.pc = "done" /\ emptyReminder) => rq.resp.body = Err("Nada para actualizar")

\* empty patches of a plan of another user and of a reminder nobody has
C9_Witness ==
  \E r \in Slots :
    /\ req[r].authed /\ req[r].pc = "done" /\ req[r].resp.status = 400
    /\ req[r].body.title = Undef /\ req[r].body.parameters = Undef
    /\ req[r].body.rule = Undef /\ req[r].body.is_active = Undef
    /\ \/ req[r].route = "updatePlan" /\ req[r].planId = 2 /\ req[r].user.userId = 1
       \/ req[r].route = "updateReminder" /\ req[r].subId = 3

\* the i-th character of a text: what it belongs to and, inside a bracket,
\* comma or object, where
RECURSIVE CharAt(_, _)
CharAt(text, i) ==
  LET h == Head(text)
      base == IF h.k = "part" THEN h.of ELSE h
  IN IF i <= h.n
       THEN IF base.k \in {"txt", "ws"} THEN <<base.k, 0>> ELSE <<base, i>>
       ELSE CharAt(Tail(text), i - h.n)

\* d is made of the first characters of raw
Excerpt(d, raw) ==
  /\ TextLen(d) <= TextLen(raw)
  /\ \A i \in 1..TextLen(d) : CharAt(d, i) = CharAt(raw, i)

\* the text has a '[' with a ']' somewhere after it
Bracketed(raw) == \E i, j \in DOMAIN raw : i < j /\ raw[i].k = "[" /\ raw[j].k = "]"

\* C10: when the reply the AI call returned to generateSections has no
\* '[' followed by a ']', the request ends with 500, error 'Respuesta IA no
\* contiene JSON', details made of at most the first 200 characters of the
\* reply, and no INSERT into plan_sections.
C10_NoJsonInReply ==
  \A r \in Slots :
    LET rq == req[r] IN
    (rq.route = "genSections" /\ rq.loc.k = "ai" /\ rq.loc.got /\ ~Bracketed(rq.loc.raw)) =>
      /\ rq.pc = "done" /\ rq.resp.status = 500
      /\ rq.resp.body.error = "Respuesta IA no contiene JSON"
      /\ TextLen(rq.resp.body.details) <= SliceLimit
      /\ Excerpt(rq.resp.body.details, rq.loc.raw)
      /\ \A st \in rq.stmts : st.op # "insert"

\* a reply longer than the excerpt, without brackets, was cut
C10_Witness ==
  \E r \in Slots :
    /\ req[r].route = "genSections" /\ req[r].pc = "done" /\ req[r].loc.k = "ai" /\ req[r].loc.got
    /\ TextLen(req[r].loc.raw) > SliceLimit /\ ~Bracketed(req[r].loc.raw)
    /\ TextLen(req[r].resp.body.details) = SliceLimit
\* C11: an export answered 200 is a PDF named plan-<planId>.pdf whose
\* executive summary is that of the plan's summary row with the highest id,
\* or the empty string when the plan has no summary; the export of an owned
\* plan that has a title is answered 200, also with no section and no
\* summary.
C11_ExportUsesLatestSummary ==
  \A r \in Slots :
    LET rq == req[r]
        mine == {m \in summaries : m.plan_id = rq.planId}
    IN (rq.route = "exportPlan" /\ rq.pc = "done") =>
         /\ rq.resp.status = 200 =>
              /\ rq.resp.body.k = "pdf"
              /\ rq.resp.body.filename = <<"plan-", rq.planId, ".pdf">>
              /\ IF mine = {} THEN rq.resp.body.executive = ""
                 ELSE \E m \in mine : /\ \A o \in mine : o.id <= m.id
                                      /\ rq.resp.body.executive = m.executive_summary
         /\ (\E p \in plans : p.id = rq.planId /\ p.user_id = rq.user.userId /\ p.title.k = "str")
              => rq.resp.status = 200

\* a plan with an older and a newer summary was exported
C11_Witness ==
  \E r \in Slots :
    /\ req[r].route = "exportPlan" /\ req[r].pc = "done" /\ req[r].resp.status = 200
    /\ Cardinality({m \in summaries : m.plan_id = req[r].planId}) = 2
    /\ req[r].resp.body.executive = "e1"

\* a plan with a title, no section and no summary was exported
C11_WitnessEmpty ==
  \E r \in Slots :
    /\ req[r].route = "exportPlan" /\ req[r].pc = "done" /\ req[r].resp.status = 200
    /\ req[r].resp.body.sections = {} /\ req[r].resp.body.executive = ""
    /\ req[r].resp.body.title = Str("T")

\* C12: whatever fails while a handler runs (a statement of the store, the
\* call to the AI, the shape or the syntax of its output, a request without
\* a body, a null title at export) ends in a 500 whose body is the JSON
\* object {error, details?}; nothing leaves the handler uncaught, and the AI
\* is not called a second time.
C12_FailuresConverted ==
  \A r \in Slots :
    req[r].raised # {} =>
      /\ req[r].pc = "done"
      /\ ~req[r].escaped
      /\ req[r].resp.status = 500
      /\ req[r].resp.body.k = "error"
      /\ DOMAIN req[r].resp.body \subseteq {"k", "error", "details"}
      /\ req[r].aiCalls <= 1

\* a request without a body reaches a handler that destructures req.body
\* before its try block, and the TypeError leaves the handler
C12_UncaughtDestructure ==
  \E r \in Slots :
    /\ req[r].route = "createPlan" /\ req[r].absent /\ req[r].user # NoUser
    /\ req[r].raised = {"body"} /\ req[r].escaped
    /\ req[r].resp.body.k # "error"

\* C13: the UPDATE of a successful updatePlan sets the title and the
\* parameters the request supplied on the caller's plan and leaves every
\* other column of it, every other plan and every other table as they were;
\* the 200 answer carries that plan as the store holds it after the UPDATE.
C13_UpdateOnlySupplied ==
  [][\A r \in Slots :
       LET rq == req[r]
           b == rq.body
       IN /\ (rq.route = "updatePlan" /\ rq.pc = "update" /\ req'[r].pc = "read") =>
               /\ {q.id : q \in plans'} = {p.id : p \in plans}
               /\ \A p \in plans : \E q \in plans' :
                    /\ q.id = p.id /\ q.user_id = p.user_id /\ q.status = p.status
                    /\ IF p.id = rq.planId /\ p.user_id = rq.user.userId
                         THEN /\ q.title = IF b.title = Undef THEN p.title ELSE b.title
                              /\ IF b.parameters = Undef THEN q.parameters = p.parameters
                                 ELSE SameMapping(ReadJson(q.parameters), b.parameters)
                         ELSE q = p
               /\ UNCHANGED <<users, sections, reminders, summaries>>
          /\ (rq.route = "updatePlan" /\ rq.pc = "read" /\ req'[r].pc = "done"
                /\ req'[r].resp.status = 200) =>
               \E q \in plans' :
                 /\ q.id = rq.planId
                 /\ req'[r].resp.body = [k |-> "plan", row |-> PlanView(q)]
                 /\ b.title # Undef => req'[r].resp.body.row.title = b.title
                 /\ b.parameters # Undef =>
                      SameMapping(req'[r].resp.body.row.parameters, b.parameters)
     ]_vars

\* a plan whose title alone was patched is answered with the new title and
\* the parameters it had
C13_Witness ==
  \E r \in Slots :
    /\ req[r].route = "updatePlan" /\ req[r].pc = "done" /\ req[r].resp.status = 200
    /\ req[r].planId = 1 /\ req[r].body.title = Str("T") /\ req[r].body.parameters = Undef
    /\ req[r].resp.body.row.title = Str("T")
    /\ req[r].resp.body.row.parameters = Obj(<< <<"Nutrición", "x">> >>)
    /\ \E p \in plans : p.id = 2 /\ p.title = Str("B")

\* C14: when generateSections answers 200 and the AI's array had n elements,
\* the n newest rows of plan_sections belong to the plan, one for each
\* element with its section_type and content; no insert of the handler
\* removes or changes a row that was there; the answer lists every section
\* the store holds for the plan.
C14_Inserted ==
  \A r \in Slots :
    (req[r].route = "genSections" /\ req[r].pc = "done" /\ req[r].resp.status = 200) =>
      LET secs == ParseArray(MatchArray(req[r].loc.raw)).v
          new == {s \in sections : s.id >= nextSectionId - Len(secs)}
      IN /\ Cardinality(new) = Len(secs)
         /\ \A s \in new : s.plan_id = req[r].planId
         /\ \A i \in DOMAIN secs : \E s \in new :
              s.section_type = secs[i].section_type /\ s.content = secs[i].content
         /\ \A s \in new : \E i \in DOMAIN secs :
              s.section_type = secs[i].section_type /\ s.content = secs[i].content
         /\ req[r].resp.body =
              [k |-> "sections",
               rows |-> {SectionView(s) : s \in {x \in sections : x.plan_id = req[r].planId}}]

C14_InsertsOnly ==
  \A r \in Slots :
    (req[r].route = "genSections" /\ req[r].pc \in {"handler", "ai", "insert", "read"}) =>
      /\ sections \subseteq sections'
      /\ Cardinality(sections') <= Cardinality(sections) + 1

C14_GenerateAdds == []C14_Inserted /\ [][C14_InsertsOnly]_vars

\* two sections generated for a plan that had one
C14_Witness ==
  \E r \in Slots :
    /\ req[r].route = "genSections" /\ req[r].pc = "done" /\ req[r].resp.status = 200
    /\ req[r].planId = 1
    /\ Cardinality(req[r].resp.body.rows) = 3
    /\ \E s \in sections : s.id = 1 /\ s.content = "c0"
    /\ \E s \in sections : s.plan_id = 1 /\ s.section_type = "Nutrición" /\ s.content = "c2"

\* text `c` is text `raw` without the whitespace around it
Trimmed(c, raw) ==
  \E i, j \in 0..Len(raw) :
    /\ i <= j /\ c = SubSeq(raw, i + 1, j)
    /\ \A n \in 1..i : raw[n].k = "ws"
    /\ \A n \in (j + 1)..Len(raw) : raw[n].k = "ws"
    /\ c # <<>> => (c[1].k # "ws" /\ c[Len(c)].k # "ws")

\* C15: adjustSection with a body whose comment is empty or missing answers
\* 400 and has issued no statement and no AI call; with a comment, for a plan
\* the caller does not own or a section that is not in the plan, it answers
\* 404 and has made no AI call; otherwise, unless the AI call failed, it
\* answers 200 with the section as stored, whose content is the reply
\* without surrounding whitespace and whose status is 'adjusted'; the
\* handler's only change to the store is that one row.
C15_Outcome ==
  \A r \in Slots :
    LET rq == req[r]
        owned == \E p \in plans : p.id = rq.planId /\ p.user_id = rq.user.userId
        inPlan == \E s \in sections : s.id = rq.subId /\ s.plan_id = rq.planId
    IN (rq.route = "adjustSection" /\ rq.pc = "done" /\ rq.authed /\ ~rq.absent) =>
         IF ~Truthy(rq.body.comment)
           THEN rq.resp.status = 400 /\ rq.dbOps = 0 /\ rq.aiCalls = 0
         ELSE IF ~(owned /\ inPlan)
           THEN rq.resp.status = 404 /\ rq.aiCalls = 0
         ELSE \/ rq.resp.status = 500 /\ rq.raised # {}
              \/ /\ rq.resp.status = 200 /\ rq.aiCalls = 1
                 /\ \E s \in sections :
                      /\ s.id = rq.subId /\ s.status = "adjusted"
                      /\ Trimmed(s.content, rq.loc.raw)
                      /\ rq.resp.body = [k |-> "section", row |-> SectionView(s)]

C15_OneRow ==
  \A r \in Slots :
    (req[r].route = "adjustSection" /\ req[r].pc \notin {"idle", "done"}) =>
      /\ UNCHANGED <<users, plans, reminders, summaries>>
      /\ {s.id : s \in sections'} = {s.id : s \in sections}
      /\ \A s \in sections : s.id # req[r].subId => s \in sections'
      /\ \A s \in sections : \A t \in sections' :
           t.id = s.id => (t.plan_id = s.plan_id /\ t.section_type = s.section_type)
      /\ req[r].pc # "update" => sections' = sections

C15_AdjustSection == []C15_Outcome /\ [][C15_OneRow]_vars

\* a reply with whitespace around it has become the content of section 1
C15_Witness ==
  \E r \in Slots :
    /\ req[r].route = "adjustSection" /\ req[r].pc = "done" /\ req[r].resp.status = 200
    /\ req[r].loc.raw = <<Ws(1), Txt(4), Ws(2)>>
    /\ req[r].resp.body.row.content = <<Txt(4)>>
    /\ req[r].resp.body.row.status = "adjusted"
    /\ \E s \in sections : s.id = 2 /\ s.content = "c0" /\ s.status = "generated"

\* the three refusals happen
C15_WitnessRefused ==
  \E r \in Slots :
    /\ req[r].route = "adjustSection" /\ req[r].pc = "done" /\ req[r].authed
    /\ req[r].resp.status = 404 /\ req[r].dbOps = 2 /\ req[r].aiCalls = 0

\* C16: a step that ends generateSummary with 200 adds one row to
\* plan_summaries, for that plan, and answers with the row's title and
\* executive_summary; no step adds more than one row; a row that is there
\* stays as it is in every step unless the step deletes its plan.
C16_Step ==
  /\ \A m \in summaries : m \in summaries' \/ (\A p \in plans' : p.id # m.plan_id)
  /\ Cardinality(summaries' \ summaries) <= 1
  /\ \A r \in Slots :
       (req[r].route = "genSummary" /\ req[r].pc # "done" /\ req'[r].pc = "done"
          /\ req'[r].resp.status = 200) =>
         \E m \in summaries' \ summaries :
           /\ summaries' = summaries \cup {m}
           /\ m.plan_id = req[r].planId
           /\ \A o \in summaries : o.id < m.id
           /\ req'[r].resp.body =
                [k |-> "summary", title |-> m.title, executive_summary |-> m.executive_summary]
  /\ summaries' \ summaries # {} =>
       \E r \in Slots : req[r].route = "genSummary" /\ req'[r].resp.status = 200

C16_SummariesAppendOnly == [][C16_Step]_vars

\* a second summary was added to plan 1 and the first is still there
C16_Witness ==
  /\ \E m \in summaries : m.id = 1 /\ m.plan_id = 1 /\ m.executive_summary = "e0"
  /\ \E m \in summaries : m.id = 2 /\ m.plan_id = 1 /\ m.executive_summary = "e1"
  /\ \E r \in Slots : /\ req[r].route = "genSummary" /\ req[r].pc = "done"
                       /\ req[r].resp.status = 200
                       /\ req[r].resp.body.executive_summary = "e1"

\* C17: updateReminder (with a patch that supplies rule or is_active) and
\* deleteReminder, asked for a reminder that does not exist or whose plan is
\* another user's, answer 404 and leave every table as it was. For the
\* caller's reminder, the UPDATE sets the supplied fields of that row and
\* nothing else and the answer is 200 with the row; the DELETE removes that
\* row and nothing else and the answer is 204.
C17_Step ==
  \A r \in Slots :
    LET rq == req[r]
        b == rq.body
        mine == \E m \in reminders : \E p \in plans :
                  m.id = rq.subId /\ p.id = m.plan_id /\ p.user_id = rq.user.userId
        patch == rq.route = "deleteReminder" \/ b.rule # Undef \/ b.is_active # Undef
    IN (rq.route \in {"updateReminder", "deleteReminder"} /\ rq.authed /\ req'[r] # rq) =>
         /\ UNCHANGED <<users, plans, sections, summaries>>
         /\ (rq.pc = "handler" /\ patch /\ ~mine) =>
              /\ req'[r].pc = "done" /\ req'[r].resp.status = 404
              /\ reminders' = reminders
         /\ (rq.pc = "handler" /\ patch /\ mine) => req'[r].pc \in {"update", "delete"}
         /\ rq.pc \notin {"update", "delete"} => reminders' = reminders
         /\ rq.pc = "update" =>
              /\ {m.id : m \in reminders'} = {m.id : m \in reminders}
              /\ \A m \in reminders : \E n \in reminders' :
                   /\ n.id = m.id /\ n.plan_id = m.plan_id
                   /\ IF m.id = rq.subId
                        THEN /\ n.rule = IF b.rule = Undef THEN m.rule ELSE b.rule.v
                             /\ n.is_active = IF b.is_active = Undef THEN m.is_active
                                               ELSE b.is_active.v
                        ELSE n = m
         /\ (rq.pc = "read" /\ req'[r].pc = "done") =>
              /\ req'[r].resp.status = 200
              /\ \E m \in reminders : m.id = rq.subId
                   /\ req'[r].resp.body = [k |-> "reminder", row |-> ReminderView(m)]
         /\ rq.pc = "delete" =>
              /\ req'[r].pc = "done" /\ req'[r].resp.status = 204
              /\ \E m \in reminders : m.id = rq.subId /\ reminders' = reminders \ {m}
              /\ Cardinality(reminders') = Cardinality(reminders) - 1

C17_RemindersOwnerOnly == [][C17_Step]_vars

\* user 1 has changed the rule of reminder 1, is_active is as it was
C17_Witness ==
  \E r \in Slots :
    /\ req[r].route = "updateReminder" /\ req[r].pc = "done" /\ req[r].resp.status = 200
    /\ req[r].body.is_active = Undef
    /\ req[r].resp.body.row = [id |-> 1, rule |-> "weekly", is_active |-> TRUE]
    /\ [id |-> 2, plan_id |-> 2, rule |-> "daily", is_active |-> TRUE] \in reminders

\* user 1 asked to delete reminder 2, which is user 2's
C17_WitnessForeign ==
  \E r \in Slots :
    /\ req[r].route = "deleteReminder" /\ req[r].pc = "done" /\ req[r].resp.status = 404
    /\ req[r].user.userId = 1 /\ req[r].subId = 2
    /\ \E m \in reminders : m.id = 2

\* user 1 deleted reminder 1
C17_WitnessDeleted ==
  \E r \in Slots :
    /\ req[r].route = "deleteReminder" /\ req[r].pc = "done" /\ req[r].resp.status = 204
    /\ req[r].subId = 1 /\ {m.id : m \in reminders} = {2}

\* C18: a request to /ai/generate or /ai/adjust that passed the token check
\* has made one upstream call, whose body is the serialisation of the
\* request's body, member for member; when the upstream answered, the
\* response is 200 with the upstream's JSON as it came; when the call
\* failed, the response is 500 with the error's message in details. No
\* request of any route makes more than one call.
C18_Gateway ==
  \A r \in Slots :
    LET rq == req[r]
        p == rq.body.payload
    IN /\ rq.aiCalls <= 1
       /\ (rq.route \in {"aiGenerate", "aiAdjust"} /\ rq.pc = "done") =>
            IF ~rq.authed THEN rq.aiCalls = 0 /\ rq.resp.status \in {401, 403}
            ELSE /\ rq.aiCalls = 1
                 /\ IF p = Undef THEN rq.loc.sent = <<>>
                    ELSE /\ Len(rq.loc.sent) = Len(p.v) + 2
                         /\ \A i \in DOMAIN p.v :
                              /\ rq.loc.sent[i + 1].key = p.v[i][1]
                              /\ rq.loc.sent[i + 1].val = p.v[i][2]
                 /\ IF rq.loc.up.k = "fail"
                      THEN /\ rq.resp.status = 500
                           /\ rq.resp.body.k = "error"
                           /\ DOMAIN rq.resp.body = {"k", "error", "details"}
                           /\ rq.resp.body.details = rq.loc.up.message
                      ELSE rq.resp = Resp(200, rq.loc.up)

\* the upstream refused the connection and the client reads why
C18_Witness ==
  \E r \in Slots :
    /\ req[r].route = "aiAdjust" /\ req[r].pc = "done" /\ req[r].authed
    /\ req[r].body.payload = Obj(<< <<"model", "m">>, <<"messages", "q">> >>)
    /\ req[r].resp = Resp(500, ErrDetails("Error al ajustar con IA", "ECONNREFUSED"))
    /\ req[r].aiCalls = 1

\* the upstream's answer is passed on
C18_WitnessPassed ==
  \E r \in Slots :
    /\ req[r].route = "aiGenerate" /\ req[r].pc = "done" /\ req[r].authed
    /\ req[r].resp = Resp(200, UpContent(<<Txt(3)>>))
    /\ Len(req[r].loc.sent) = 4

\* C19: a registration answered 201 carries no token and has stored a user
\* with the email and a hash of the password; a login with the email of a
\* registered user and the password of the registration is answered 200 with
\* a token that verifies as the id and email of that user's row; a login
\* with that email and another password is answered 401.
C19_RoundTrip ==
  \A r \in Slots :
    LET rq == req[r]
        b == rq.body
    IN /\ (rq.route = "register" /\ rq.pc = "done" /\ rq.resp.status = 201) =>
            /\ "token" \notin DOMAIN rq.resp.body
            /\ \E u \in users : /\ u.email = b.email.v
                                 /\ \E salt \in Salts : u.password_hash = Hash(b.password.v, salt)
                                 /\ \A o \in users : o.email = u.email => o = u
       /\ (rq.route = "login" /\ rq.pc = "done" /\ Truthy(b.email) /\ Truthy(b.password)) =>
            \A u \in users : u.email = b.email.v =>
              IF \E salt \in Salts : u.password_hash = Hash(b.password.v, salt)
                THEN /\ rq.resp.status = 200
                     /\ DOMAIN rq.resp.body = {"k", "token"}
                     /\ LET tok == rq.resp.body.token
                            o == AuthOutcome(Header(<<W("Bearer"), J(tok)>>), tok.exp - ExpiresIn)
                        IN o.ok /\ o.user = [userId |-> u.id, email |-> u.email]
                ELSE rq.resp.status = 401

\* c@x registered during the run and then logged in as user 3
C19_Witness ==
  /\ \E u \in users : u.id = 3 /\ u.email = "c@x" /\ u.password_hash = Hash("p2", "s")
  /\ \E r \in Slots :
       /\ req[r].route = "login" /\ req[r].pc = "done" /\ req[r].resp.status = 200
       /\ req[r].body.email = Str("c@x") /\ req[r].body.password = Str("p2")
       /\ req[r].resp.body.token.userId = 3 /\ req[r].resp.body.token.email = "c@x"

\* c@x registered with p2 and then tried p1
C19_WitnessRefused ==
  /\ \E u \in users : u.id = 3 /\ u.email = "c@x" /\ u.password_hash = Hash("p2", "s")
  /\ \E r \in Slots :
       /\ req[r].route = "login" /\ req[r].pc = "done" /\ req[r].resp.status = 401
       /\ req[r].body.email = Str("c@x") /\ req[r].body.password = Str("p1")

\* two requests to adjust one section, by its owner
Adjusting(r1, r2) ==
  /\ r1 # r2
  /\ req[r1].route = "adjustSection" /\ req[r2].route = "adjustSection"
  /\ req[r1].planId = req[r2].planId /\ req[r1].subId = req[r2].subId

\* C20: of two overlapping adjustSection requests for one section, each
\* UPDATE writes the whole trimmed reply of its own request over the
\* section's content and sets status 'adjusted', and no other step of the
\* two handlers writes; so the content is, at every moment, the original
\* or the reply of the UPDATE that ran last; both requests that got a reply
\* answer 200, each with the section as the store held it at its re-read,
\* and the section then holds the reply of one of the two.
C20_UpdateStep ==
  \A r1, r2 \in Slots :
    (Adjusting(r1, r2) /\ req'[r1] # req[r1]) =>
      IF req[r1].pc = "update"
        THEN \A s \in sections : s.id = req[r1].subId =>
               \E t \in sections' :
                 /\ t.id = s.id /\ t.status = "adjusted"
                 /\ Trimmed(t.content, req[r1].loc.raw)
                 /\ sections' = (sections \ {s}) \cup {t}
        ELSE /\ sections' = sections
             /\ req[r1].pc = "read" =>
                  \A s \in sections : s.id = req[r1].subId =>
                    req'[r1].resp = Resp(200, [k |-> "section", row |-> SectionView(s)])

C20_BothAnswered ==
  \A r1, r2 \in Slots :
    (Adjusting(r1, r2) /\ req[r1].pc = "done" /\ req[r2].pc = "done"
       /\ req[r1].loc.k = "adj" /\ req[r2].loc.k = "adj") =>
      /\ req[r1].resp.status = 200 /\ req[r2].resp.status = 200
      /\ \A s \in sections : s.id = req[r1].subId =>
           /\ s.status = "adjusted"
           /\ Trimmed(s.content, req[r1].loc.raw) \/ Trimmed(s.content, req[r2].loc.raw)
           /\ req[r1].resp.body.row.status = "adjusted"
           /\ req[r2].resp.body.row.status = "adjusted"

C20_LastWriterWins == [][C20_UpdateStep]_vars /\ []C20_BothAnswered

\* both requests have read the original content and neither has written
C20_WitnessSameRead ==
  \E r1, r2 \in Slots :
    /\ Adjusting(r1, r2)
    /\ req[r1].pc = "ai" /\ req[r2].pc = "ai"
    /\ req[r1].loc.content = "c0" /\ req[r2].loc.content = "c0"

\* both answered 200; the first writer was answered with its own reply, and
\* the section holds the reply of the second
C20_Witness ==
  \E r1, r2 \in Slots :
    /\ Adjusting(r1, r2)
    /\ req[r1].pc = "done" /\ req[r2].pc = "done"
    /\ req[r1].resp.status = 200 /\ req[r2].resp.status = 200
    /\ req[r1].loc.raw = <<Ws(1), Txt(4), Ws(2)>> /\ req[r2].loc.raw = <<Txt(5)>>
    /\ req[r1].resp.body.row.content = <<Txt(4)>>
    /\ \E s \in sections : s.id = 1 /\ s.content = <<Txt(5)>> /\ s.status = "adjusted"

\* C21: when one of the inserts of generateSections is rejected, the answer
\* is 500 and stays 500; the rows of the inserts that went through are in
\* the store, one for each of them and no step of the request takes a row
\* away, so the plan holds fewer new sections than the parsed array has
\* elements.
C21_Kept ==
  \A r \in Slots :
    (req[r].route = "genSections" /\ req[r].pc = "done" /\ req[r].loc.k = "ai"
       /\ req[r].loc.lost # {}) =>
      LET secs == req[r].loc.pending
          kept == DOMAIN secs \ (req[r].loc.left \cup req[r].loc.lost)
          new == {s \in sections : s.id >= nextSectionId - Cardinality(kept)}
      IN /\ req[r].resp.status = 500 /\ req[r].resp.body.k = "error"
         /\ secs = ParseArray(MatchArray(req[r].loc.raw)).v
         /\ Cardinality(new) = Cardinality(kept)
         /\ Cardinality(kept) < Len(secs)
         /\ \A s \in new : /\ s.plan_id = req[r].planId
                            /\ \E n \in kept : /\ s.section_type = secs[n].section_type
                                                /\ s.content = secs[n].content
         /\ \A n \in kept : \E s \in new : /\ s.section_type = secs[n].section_type
                                             /\ s.content = secs[n].content

C21_NoRollback ==
  \A r \in Slots :
    (req[r].route = "genSections" /\ req'[r] # req[r] /\ req'[r].route = "genSections") =>
      /\ sections \subseteq sections'
      /\ req[r].pc = "done" => req'[r].resp = req[r].resp

C21_PartialInsert == []C21_Kept /\ [][C21_NoRollback]_vars

\* of the two sections of the reply one is stored, the other insert was
\* rejected, and the client was told 500
C21_Witness ==
  \E r \in Slots :
    /\ req[r].route = "genSections" /\ req[r].pc = "done" /\ req[r].resp.status = 500
    /\ req[r].planId = 1 /\ req[r].loc.k = "ai" /\ Len(req[r].loc.pending) = 2
    /\ req[r].loc.left = {} /\ Cardinality(req[r].loc.lost) = 1
    /\ \E s \in sections : s.plan_id = 1 /\ s.section_type = "Profesional" /\ s.content = "c1"
    /\ \A s \in sections : s.section_type # "Nutrición"

\* the stored row arrived after the 500 had been sent
C21_WitnessLate ==
  \E r \in Slots :
    /\ req[r].route = "genSections" /\ req[r].pc = "done" /\ req[r].resp.status = 500
    /\ req[r].loc.k = "ai" /\ req[r].loc.lost = {1} /\ req[r].loc.left = {}
    /\ req[r].dbOps = 3
    /\ \E s \in sections : s.plan_id = req[r].planId /\ s.section_type = "Nutrición"

\* the call to the AI gateway was made and nothing usable came of it
FailedAtAI(rq) ==
  /\ rq.route \in {"genSections", "adjustSection", "genSummary"}
  /\ rq.aiAt >= 0
  /\ \/ rq.raised \cap {"ai", "shape", "parse"} # {}
     \/ rq.header.parts[2].v.exp <= rq.aiAt
     \/ /\ rq.pc = "done" /\ rq.resp.body.k = "error"
        /\ rq.resp.body.error \in {"Respuesta IA no contiene JSON", "IA no devolvió JSON válido"}

\* C22: generateSections, adjustSection and generateSummary write nothing
\* before the AI gateway has answered, and when the round trip fails (the
\* upstream call fails, the answer has no choices, the forwarded token has
\* expired since the handler's own check) or the reply holds no JSON or JSON
\* that does not parse, the request ends with 500 and has issued no INSERT
\* and no UPDATE.
C22_NothingWritten ==
  \A r \in Slots :
    FailedAtAI(req[r]) =>
      /\ req[r].pc = "done" /\ req[r].resp.status = 500
      /\ \A st \in req[r].stmts : st.op = "select"

C22_ReadsBeforeAI ==
  \A r \in Slots :
    (req[r].route \in {"genSections", "adjustSection", "genSummary"}
       /\ req[r].pc \in {"auth", "handler", "sections", "section", "ai"} /\ req'[r] # req[r]) =>
      UNCHANGED <<users, plans, sections, reminders, summaries>>

C22_StoreUnchangedOnAIFailure == []C22_NothingWritten /\ [][C22_ReadsBeforeAI]_vars

\* the token expired between the handler's check and the gateway's: section 1
\* is as it was
C22_Witness ==
  \E r \in Slots :
    /\ req[r].route = "adjustSection" /\ req[r].pc = "done" /\ req[r].resp.status = 500
    /\ req[r].authed /\ req[r].authAt < req[r].header.parts[2].v.exp
    /\ req[r].header.parts[2].v.exp <= req[r].aiAt /\ req[r].aiCalls = 0
    /\ \E s \in sections : s.id = 1 /\ s.content = "c0" /\ s.status = "generated"

\* the reply's JSON does not parse: no summary was added
C22_WitnessParse ==
  \E r \in Slots :
    /\ req[r].route = "genSummary" /\ req[r].pc = "done" /\ req[r].raised = {"parse"}
    /\ summaries = SeedSummaries

\* the answer has no choices: no section was added
C22_WitnessShape ==
  \E r \in Slots :
    /\ req[r].route = "genSections" /\ req[r].pc = "done" /\ req[r].raised = {"shape"}
    /\ sections = SeedSections

\* the upstream call failed
C22_WitnessUpstream ==
  \E r \in Slots :
    /\ req[r].route = "genSections" /\ req[r].pc = "done" /\ req[r].raised = {"ai"}
    /\ req[r].aiCalls = 1 /\ sections = SeedSections

\* C23: a 200 of updatePlan or updateReminder carries the row of the plan
\* or reminder it was asked to change, whatever other requests ran between
\* its ownership check and its last SELECT.
C23_UpdateAnswersRow ==
  \A r \in Slots :
    (req[r].route \in {"updatePlan", "updateReminder"} /\ req[r].pc = "done"
       /\ req[r].resp.status = 200) =>
      /\ req[r].resp.body.k \in {"plan", "reminder"}
      /\ req[r].resp.body.row.id = IF req[r].route = "updatePlan" THEN req[r].planId
                                                                  ELSE req[r].subId

\* plan 1 was deleted after updatePlan had found it: the UPDATE matched no
\* row, the SELECT returned none, and the answer is 200 with no row
C23_AbsentRow ==
  \E r \in Slots :
    /\ req[r].route = "updatePlan" /\ req[r].pc = "done" /\ req[r].resp.status = 200
    /\ req[r].resp.body = Empty
    /\ [table |-> "plans", op |-> "update", filter |-> {"id", "user_id"}] \in req[r].stmts
    /\ \A p \in plans : p.id # req[r].planId

\* the same for a reminder
C23_AbsentReminder ==
  \E r \in Slots :
    /\ req[r].route = "updateReminder" /\ req[r].pc = "done" /\ req[r].resp.status = 200
    /\ req[r].resp.body = Empty
    /\ \A m \in reminders : m.id # req[r].subId

\* C24: no two user rows have the same email; of two registrations of one
\* email that are being handled together, also when both have passed the
\* existence check before either inserts, at most one is answered 201.
C24_OneUserPerEmail ==
  /\ \A u1, u2 \in users : u1.email = u2.email => u1 = u2
  /\ \A r1, r2 \in Slots :
       (r1 # r2 /\ req[r1].route = "register" /\ req[r2].route = "register"
          /\ req[r1].body.email = req[r2].body.email
          /\ req[r1].pc = "done" /\ req[r2].pc = "done") =>
         ~(req[r1].resp.status = 201 /\ req[r2].resp.status = 201)

\* both registrations of c@x found no such user and went on to insert; one
\* was answered 201, the other's INSERT was rejected
C24_Witness ==
  \E r1, r2 \in Slots :
    /\ r1 # r2
    /\ req[r1].route = "register" /\ req[r2].route = "register"
    /\ req[r1].body.email = Str("c@x") /\ req[r2].body.email = Str("c@x")
    /\ req[r1].pc = "done" /\ req[r1].resp.status = 201
    /\ req[r2].pc = "done" /\ req[r2].resp.status = 500 /\ req[r2].raised = {"store"}
    /\ [table |-> "users", op |-> "insert", filter |-> {}] \in req[r2].stmts
    /\ Cardinality({u \in users : u.email = "c@x"}) = 1

\* C25: when no health check is between its getConnection and the end of
\* its ping, no connection is out of the pool: each health check has given
\* back the connection it took, whether its ping succeeded or failed.
C25_HealthReleases ==
  (\A r \in Slots : req[r].pc # "ping") => held = 0

\* a health check whose ping failed has answered 500 and its connection is
\* still checked out
C25_Leaked ==
  /\ held = 1
  /\ \E r \in Slots :
       /\ req[r].route = "health" /\ req[r].pc = "done"
       /\ req[r].resp = Resp(500, [k |-> "health", status |-> "ERROR", message |-> "ECONNREFUSED"])
  /\ \A r \in Slots : req[r].pc # "ping"

\* ---------------------------------------------------------------- C26
\* A step the handler of request r takes when no statement is rejected.
C26_Step(r) ==
  Handle(r) \/ DestructureThrows(r) \/ HealthAcquire(r) \/ HealthPing(r)

\* The next row of the handler's INSERT would get an id beyond the ids the
\* state space holds.
C26_OutOfIds(rq) ==
  \/ rq.route = "createPlan" /\ rq.pc = "handler" /\ nextPlanId > MaxPlans
  \/ rq.route = "genSections" /\ rq.pc = "insert" /\ nextSectionId > MaxSections
  \/ rq.route = "genSummary" /\ rq.pc = "insert" /\ nextSummaryId > MaxSummaries

C26_OneResponse ==
  \A r \in Slots :
    /\ req[r].pc = "done" => req[r].sent = 1 /\ req[r].resp # NoResp
    /\ req[r].pc # "done" => req[r].sent = 0 /\ req[r].resp = NoResp
    /\ (req[r].pc \notin {"idle", "done"} /\ ~C26_OutOfIds(req[r])) => ENABLED C26_Step(r)

C26_ResponseKept ==
  \A r \in Slots :
    (req[r].pc = "done" /\ req'[r].pc = "done") =>
      (req'[r].resp = req[r].resp /\ req'[r].sent = req[r].sent)

\* C26: every request that reaches a handler gets exactly one response on
\* every path: a request that is answered has had one response written and
\* the response is never written again (no 404/500 body followed by a
\* success body, no PDF from the 'end' callback after the catch block
\* answered), and a request that is not answered yet has had none written
\* and has a step left to take, so no path stops without answering.
C26_ExactlyOneResponse == []C26_OneResponse /\ [][C26_ResponseKept]_vars

\* an export whose document could not be filled was answered by the catch
\* block alone, and another export was answered from the 'end' callback
C26_Witness ==
  \E r \in Slots :
    /\ req[r].route = "exportPlan" /\ req[r].pc = "done"
    /\ req[r].resp.status = 500 /\ "title" \in req[r].raised
    /\ req[r].sent = 1

C26_WitnessEnd ==
  \E r \in Slots :
    /\ req[r].route = "exportPlan" /\ req[r].pc = "done"
    /\ req[r].resp.status = 200 /\ req[r].resp.body.k = "pdf"
    /\ req[r].sent = 1

\* ---------------------------------------------------------------- C27
C27_AsCreated ==
  \A p \in plans :
    /\ p.status = PlanStatusDefault
    /\ \E o \in owner : o.id = p.id /\ o.user_id = p.user_id

C27_RowKeepsOwnerAndStatus ==
  \A p \in plans : \A q \in plans' :
    q.id = p.id => (q.user_id = p.user_id /\ q.status = p.status)

\* C27: a plan's owner and status never change after creation: every plan
\* in the store has status 'draft' and the user_id it was created with, and
\* no step of any handler changes the user_id or the status of a plan that
\* exists.
C27_OwnerAndStatusFixed == []C27_AsCreated /\ [][C27_RowKeepsOwnerAndStatus]_vars

\* an updatePlan answered 200 after changing the title of a plan that is
\* still a draft of its creator
C27_Witness ==
  \E r \in Slots :
    /\ req[r].route = "updatePlan" /\ req[r].pc = "done" /\ req[r].resp.status = 200
    /\ \E p \in plans :
         /\ p.id = req[r].planId
         /\ \E s \in SeedPlans : s.id = p.id /\ s.title # p.title /\ s.user_id = p.user_id
         /\ p.status = "draft"

\* a plan made by createPlan was then patched by updatePlan
C27_WitnessCreated ==
  \E r \in Slots :
    /\ req[r].route = "updatePlan" /\ req[r].pc = "done" /\ req[r].resp.status = 200
    /\ \E p \in plans :
         /\ p.id = req[r].planId /\ p.id \notin {s.id : s \in SeedPlans}
         /\ p.status = "draft" /\ p.user_id = req[r].user.userId

\* ---------------------------------------------------------------- C28
\* the UPDATE of adjustSection, run by request r on section s
C28_AdjustsNow(r, s) ==
  req[r].route = "adjustSection" /\ req[r].pc = "update" /\ req'[r].pc = "read" /\ req[r].subId = s.id

C28_Statuses ==
  /\ \A s \in sections : s.status \in {"generated", "adjusted"}
  /\ \A r \in Slots :
       (/\ req[r].route = "adjustSection"
        /\ req[r].pc = "read" \/ (req[r].pc = "done" /\ req[r].resp.status = 200))
       => \A s \in sections : s.id = req[r].subId => s.status = "adjusted"

C28_Forward ==
  /\ \A t \in sections' :
       t.id \notin {s.id : s \in sections} => t.status = "generated"
  /\ \A s \in sections : \A t \in sections' :
       t.id = s.id =>
         /\ t.section_type = s.section_type /\ t.plan_id = s.plan_id
         /\ IF \E r \in Slots : C28_AdjustsNow(r, s)
              THEN t.status = "adjusted"
              ELSE t.status = s.status
         /\ s.status = "adjusted" => t.status = "adjusted"

\* C28: a section's status only moves forward: a row is 'generated' when it
\* is inserted, it becomes 'adjusted' in the step in which adjustSection
\* updates it and in no other step, an adjusted row stays adjusted, and no
\* step changes a row's section_type or plan_id.
C28_StatusMovesForward == []C28_Statuses /\ [][C28_Forward]_vars

\* a section that an answered adjustSection has adjusted
C28_Witness ==
  \E r \in Slots :
    /\ req[r].route = "adjustSection" /\ req[r].pc = "done" /\ req[r].resp.status = 200
    /\ \E s \in sections : s.id = req[r].subId /\ s.status = "adjusted"

\* a section inserted by generateSections and adjusted afterwards
C28_WitnessInserted ==
  \E r \in Slots :
    /\ req[r].route = "adjustSection" /\ req[r].pc = "done" /\ req[r].resp.status = 200
    /\ \E s \in sections :
         s.id = req[r].subId /\ s.status = "adjusted" /\ s.id \notin {x.id : x \in SeedSections}

\* an adjustSection about to update a section that is adjusted already
C28_WitnessAgain ==
  \E r \in Slots :
    /\ req[r].route = "adjustSection" /\ req[r].pc = "update"
    /\ \E s \in sections : s.id = req[r].subId /\ s.status = "adjusted"

====
